---- MODULE Spec2Model ----
(***************************************************************************)
(* LocLM backend: the agent orchestration core.                            *)
(*                                                                         *)
(*   agent/tool_middleware.py  TOOL_SCHEMAS, ToolMiddleware                *)
(*   agent/file_tracker.py     TrackedFile, FileChangeTracker              *)
(*   agent/agent_loop.py       AgentLoop (process, tool extraction,        *)
(*                             tool dispatch, built-in tools)              *)
(*   agent/platform_utils.py   run_command                                 *)
(*                                                                         *)
(* Representation.  A Python str that the code inspects character by       *)
(* character (tool names, argument keys, paths, file contents, commands)   *)
(* is a sequence of one-character strings.  A JSON value is a record       *)
(* tagged by its type.  A dict with fixed keys is a record; the args dict, *)
(* whose keys are data, is a function from key strings to JSON values.     *)
(* A text assembled by an f-string is the sequence of its pieces, each a   *)
(* literal or an interpolated value.                                       *)
(***************************************************************************)
EXTENDS Integers, Sequences, FiniteSets, TLC

(***************************************************************************)
(* JSON values, as json.loads returns them.                                *)
(***************************************************************************)
JNull == [t |-> "null"]

JStr(s) == [t |-> "str", s |-> s]

JNum(n) == [t |-> "num", n |-> n]

JBool(b) == [t |-> "bool", b |-> b]

JObj(f) == [t |-> "obj", f |-> f]

\* The empty dict {}.

\* isinstance(v, str) / isinstance(v, dict)
IsStr(v) == v.t = "str"

IsDict(v) == v.t = "obj"

(***************************************************************************)
(* Python str operations used by the code.                                 *)
(***************************************************************************)
SetMin(S) == CHOOSE x \in S : \A y \in S : x <= y

SetMax(S) == CHOOSE x \in S : \A y \in S : x >= y

UpperCase == <<"A","B","C","D","E","F","G","H","I","J","K","L","M",
               "N","O","P","Q","R","S","T","U","V","W","X","Y","Z">>

LowerCase == <<"a","b","c","d","e","f","g","h","i","j","k","l","m",
               "n","o","p","q","r","s","t","u","v","w","x","y","z">>

\* str.lower()
lower(s) ==
  [i \in 1..Len(s) |->
     IF \E k \in 1..Len(UpperCase) : UpperCase[k] = s[i]
     THEN LowerCase[CHOOSE k \in 1..Len(UpperCase) : UpperCase[k] = s[i]]
     ELSE s[i]]

Whitespace == {" ", "\n", "\t", "\r"}

\* str.strip()
strip(s) ==
  LET keep == {i \in 1..Len(s) : s[i] \notin Whitespace}
  IN IF keep = {} THEN <<>> ELSE SubSeq(s, SetMin(keep), SetMax(keep))

\* Code-point order of the characters of names: '.', '/', the digits, upper
\* case, '_' and lower case; any other character sorts first.
CodeOrder ==
  <<".", "/", "0", "1", "2", "3", "4", "5", "6", "7", "8", "9">> \o UpperCase \o <<"_">> \o LowerCase

Ord(c) ==
  IF \E k \in 1..Len(CodeOrder) : CodeOrder[k] = c
  THEN CHOOSE k \in 1..Len(CodeOrder) : CodeOrder[k] = c
  ELSE 0

\* a < b for str (lexicographic by code point)
RECURSIVE StrLess(_, _)
StrLess(a, b) ==
  IF b = <<>> THEN FALSE
  ELSE IF a = <<>> THEN TRUE
  ELSE IF Ord(Head(a)) # Ord(Head(b)) THEN Ord(Head(a)) < Ord(Head(b))
  ELSE StrLess(Tail(a), Tail(b))

(***************************************************************************)
(* difflib (standard library), as get_close_matches uses it:               *)
(* SequenceMatcher(a = possibility, b = word) without junk; every string   *)
(* here is far shorter than the 200 characters at which autojunk acts.     *)
(***************************************************************************)
\* Length of the common prefix of a[i..ahi] and b[j..bhi] (1-based, inclusive).
RECURSIVE MatchLen(_, _, _, _, _, _)
MatchLen(a, b, i, j, ahi, bhi) ==
  IF i > ahi \/ j > bhi \/ a[i] # b[j] THEN 0
  ELSE 1 + MatchLen(a, b, i + 1, j + 1, ahi, bhi)

\* Of the blocks of one size, the one starting earliest in a and, among
\* those, earliest in b.
Earliest(longest) ==
  CHOOSE m \in longest : \A n \in longest : m[1] < n[1] \/ (m[1] = n[1] /\ m[2] <= n[2])

Longest(blocks, size, alo, blo) ==
  IF size = 0 THEN <<alo, blo, 0>> ELSE Earliest({m \in blocks : m[3] = size})

\* SequenceMatcher.find_longest_match on a[alo..ahi], b[blo..bhi]: the longest
\* matching block <<i, j, k>>, the one starting earliest in a and, among
\* those, earliest in b; <<alo, blo, 0>> when nothing matches.
find_longest_match(a, b, alo, ahi, blo, bhi) ==
  Longest({<<i, j, MatchLen(a, b, i, j, ahi, bhi)>> : i \in alo..ahi, j \in blo..bhi},
          SetMax({0} \cup {MatchLen(a, b, i, j, ahi, bhi) : i \in alo..ahi, j \in blo..bhi}),
          alo, blo)

\* Sum of the sizes of SequenceMatcher.get_matching_blocks: the longest
\* block m, then recursively the pieces to its left and to its right.
RECURSIVE Matches(_, _, _, _, _, _)
Around(a, b, alo, ahi, blo, bhi, m) ==
  IF m[3] = 0 THEN 0
  ELSE m[3]
       + (IF alo < m[1] /\ blo < m[2] THEN Matches(a, b, alo, m[1] - 1, blo, m[2] - 1) ELSE 0)
       + (IF m[1] + m[3] <= ahi /\ m[2] + m[3] <= bhi
          THEN Matches(a, b, m[1] + m[3], ahi, m[2] + m[3], bhi) ELSE 0)

Matches(a, b, alo, ahi, blo, bhi) ==
  Around(a, b, alo, ahi, blo, bhi, find_longest_match(a, b, alo, ahi, blo, bhi))

\* Number of occurrences of c in s.
Count(s, c) == Cardinality({i \in 1..Len(s) : s[i] = c})

\* SequenceMatcher.quick_ratio's numerator: size of the multiset intersection.
QuickMatches(a, b) ==
  LET chars == {b[i] : i \in 1..Len(b)}
      RECURSIVE Sum(_)
      Sum(S) == IF S = {} THEN 0
                ELSE LET c == CHOOSE c \in S : TRUE
                         ca == Count(a, c)
                         cb == Count(b, c)
                     IN (IF ca < cb THEN ca ELSE cb) + Sum(S \ {c})
  IN Sum(chars)

\* ratio = 2.0 * matches / (len(a) + len(b)), 1.0 for two empty strings;
\* ratio >= num/den, decided on the integers.
RatioAtLeast(matches, length, num, den) ==
  IF length = 0 THEN TRUE ELSE 2 * matches * den >= num * length

\* score(x) >= cutoff as get_close_matches tests it: real_quick_ratio,
\* quick_ratio and ratio in turn (cutoff = num/den).
IsCloseMatch(word, x, num, den) ==
  LET length == Len(x) + Len(word)
      shorter == IF Len(x) < Len(word) THEN Len(x) ELSE Len(word)
  IN /\ RatioAtLeast(shorter, length, num, den)
     /\ RatioAtLeast(QuickMatches(x, word), length, num, den)
     /\ RatioAtLeast(Matches(x, word, 1, Len(x), 1, Len(word)), length, num, den)

\* The best of the close matches: the greatest (score, string) pair, as
\* heapq.nlargest orders them; M[i] and T[i] are the numerator and the
\* denominator of the score of possibilities[i].
Best(possibilities, close, M, T) ==
  CHOOSE i \in close :
    \A k \in close : ~ \/ M[i] * T[k] < M[k] * T[i]
                       \/ /\ M[i] * T[k] = M[k] * T[i]
                          /\ StrLess(possibilities[i], possibilities[k])

Ranked(word, possibilities, close) ==
  IF close = {} THEN <<>>
  ELSE << possibilities[Best(possibilities, close,
                              [i \in close |-> 2 * Matches(possibilities[i], word, 1,
                                                           Len(possibilities[i]), 1, Len(word))],
                              [i \in close |-> Len(possibilities[i]) + Len(word)])] >>

\* difflib.get_close_matches(word, possibilities, n=1, cutoff=num/den): the
\* empty list, or the one-element list holding the best match.
get_close_matches(word, possibilities, num, den) ==
  Ranked(word, possibilities,
         {i \in 1..Len(possibilities) : IsCloseMatch(word, possibilities[i], num, den)})
(***************************************************************************)
(* Python dict: the sequence of its items in insertion order, keys         *)
(* distinct.                                                               *)
(***************************************************************************)
Item(k, v) == [k |-> k, v |-> v]

\* k in d
Has(d, k) == \E i \in 1..Len(d) : d[i].k = k

\* d[k]
Get(d, k) == d[CHOOSE i \in 1..Len(d) : d[i].k = k].v

\* d.get(k, default)
GetOr(d, k, default) == IF Has(d, k) THEN Get(d, k) ELSE default

\* list(d.keys())
Keys(d) == [i \in 1..Len(d) |-> d[i].k]

\* d[k] = v
Put(d, k, v) ==
  IF Has(d, k)
  THEN [i \in 1..Len(d) |-> IF d[i].k = k THEN Item(k, v) ELSE d[i]]
  ELSE Append(d, Item(k, v))

(***************************************************************************)
(* Texts built by f-strings: sequences of pieces.                          *)
(***************************************************************************)
\* a literal piece of the source text
Lit(s) == [lit |-> s]

\* an interpolated str, by its characters
Chr(cs) == [chr |-> cs]

\* an interpolated int
Num(n) == [num |-> n]

\* an interpolated JSON value (str(v) of whatever the model sent)
Val(v) == [val |-> v]

\* an interpolated exception message (str(e))
Exc(e) == [exc |-> e]

\* three backquotes
Fences == [fences |-> 3]


(***************************************************************************)
TOOL_SCHEMAS == <<
  \* "list_directory": aliases ls, dir, list_dir, listdir, list_files
  [name |-> <<"l","i","s","t","_","d","i","r","e","c","t","o","r","y">>,
   aliases |-> << <<"l","s">>, <<"d","i","r">>, <<"l","i","s","t","_","d","i","r">>, <<"l","i","s","t","d","i","r">>, <<"l","i","s","t","_","f","i","l","e","s">> >>,
   parameters |-> <<
     \* path? (path): aliases directory, dir, folder, location; default '.'
     [name |-> <<"p","a","t","h">>, required |-> FALSE, param_type |-> "path", default |-> JStr(<<".">>),
      aliases |-> << <<"d","i","r","e","c","t","o","r","y">>, <<"d","i","r">>, <<"f","o","l","d","e","r">>, <<"l","o","c","a","t","i","o","n">> >>]
   >>],
  \* "read_file": aliases cat, view_file, get_file, open_file, read, view
  [name |-> <<"r","e","a","d","_","f","i","l","e">>,
   aliases |-> << <<"c","a","t">>, <<"v","i","e","w","_","f","i","l","e">>, <<"g","e","t","_","f","i","l","e">>, <<"o","p","e","n","_","f","i","l","e">>, <<"r","e","a","d">>, <<"v","i","e","w">> >>,
   parameters |-> <<
     \* path (path): aliases filename, file, filepath, file_path, name; default None
     [name |-> <<"p","a","t","h">>, required |-> TRUE, param_type |-> "path", default |-> JNull,
      aliases |-> << <<"f","i","l","e","n","a","m","e">>, <<"f","i","l","e">>, <<"f","i","l","e","p","a","t","h">>, <<"f","i","l","e","_","p","a","t","h">>, <<"n","a","m","e">> >>]
   >>],
  \* "write_file": aliases create_file, save_file, write, save, create, put_file
  [name |-> <<"w","r","i","t","e","_","f","i","l","e">>,
   aliases |-> << <<"c","r","e","a","t","e","_","f","i","l","e">>, <<"s","a","v","e","_","f","i","l","e">>, <<"w","r","i","t","e">>, <<"s","a","v","e">>, <<"c","r","e","a","t","e">>, <<"p","u","t","_","f","i","l","e">> >>,
   parameters |-> <<
     \* path (path): aliases filename, file, filepath, file_path, name; default None
     [name |-> <<"p","a","t","h">>, required |-> TRUE, param_type |-> "path", default |-> JNull,
      aliases |-> << <<"f","i","l","e","n","a","m","e">>, <<"f","i","l","e">>, <<"f","i","l","e","p","a","t","h">>, <<"f","i","l","e","_","p","a","t","h">>, <<"n","a","m","e">> >>],
     \* content (content): aliases text, data, body, contents, code; default None
     [name |-> <<"c","o","n","t","e","n","t">>, required |-> TRUE, param_type |-> "content", default |-> JNull,
      aliases |-> << <<"t","e","x","t">>, <<"d","a","t","a">>, <<"b","o","d","y">>, <<"c","o","n","t","e","n","t","s">>, <<"c","o","d","e">> >>]
   >>],
  \* "run_command": aliases exec, execute, shell, bash, cmd, run, terminal
  [name |-> <<"r","u","n","_","c","o","m","m","a","n","d">>,
   aliases |-> << <<"e","x","e","c">>, <<"e","x","e","c","u","t","e">>, <<"s","h","e","l","l">>, <<"b","a","s","h">>, <<"c","m","d">>, <<"r","u","n">>, <<"t","e","r","m","i","n","a","l">> >>,
   parameters |-> <<
     \* command (command): aliases cmd, shell_command, script, commands; default None
     [name |-> <<"c","o","m","m","a","n","d">>, required |-> TRUE, param_type |-> "command", default |-> JNull,
      aliases |-> << <<"c","m","d">>, <<"s","h","e","l","l","_","c","o","m","m","a","n","d">>, <<"s","c","r","i","p","t">>, <<"c","o","m","m","a","n","d","s">> >>]
   >>],
  \* "search_files": aliases find, find_files, glob, locate
  [name |-> <<"s","e","a","r","c","h","_","f","i","l","e","s">>,
   aliases |-> << <<"f","i","n","d">>, <<"f","i","n","d","_","f","i","l","e","s">>, <<"g","l","o","b">>, <<"l","o","c","a","t","e">> >>,
   parameters |-> <<
     \* pattern (string): aliases glob, query, search, name; default None
     [name |-> <<"p","a","t","t","e","r","n">>, required |-> TRUE, param_type |-> "string", default |-> JNull,
      aliases |-> << <<"g","l","o","b">>, <<"q","u","e","r","y">>, <<"s","e","a","r","c","h">>, <<"n","a","m","e">> >>],
     \* path? (path): aliases directory, dir, folder, in; default '.'
     [name |-> <<"p","a","t","h">>, required |-> FALSE, param_type |-> "path", default |-> JStr(<<".">>),
      aliases |-> << <<"d","i","r","e","c","t","o","r","y">>, <<"d","i","r">>, <<"f","o","l","d","e","r">>, <<"i","n">> >>]
   >>],
  \* "grep_files": aliases grep, search, find_text, search_content, search_in_files
  [name |-> <<"g","r","e","p","_","f","i","l","e","s">>,
   aliases |-> << <<"g","r","e","p">>, <<"s","e","a","r","c","h">>, <<"f","i","n","d","_","t","e","x","t">>, <<"s","e","a","r","c","h","_","c","o","n","t","e","n","t">>, <<"s","e","a","r","c","h","_","i","n","_","f","i","l","e","s">> >>,
   parameters |-> <<
     \* pattern (string): aliases query, search, text, regex, term; default None
     [name |-> <<"p","a","t","t","e","r","n">>, required |-> TRUE, param_type |-> "string", default |-> JNull,
      aliases |-> << <<"q","u","e","r","y">>, <<"s","e","a","r","c","h">>, <<"t","e","x","t">>, <<"r","e","g","e","x">>, <<"t","e","r","m">> >>],
     \* path? (path): aliases directory, dir, folder, in; default '.'
     [name |-> <<"p","a","t","h">>, required |-> FALSE, param_type |-> "path", default |-> JStr(<<".">>),
      aliases |-> << <<"d","i","r","e","c","t","o","r","y">>, <<"d","i","r">>, <<"f","o","l","d","e","r">>, <<"i","n">> >>],
     \* file_pattern? (string): aliases glob, files, filter, extension; default '*'
     [name |-> <<"f","i","l","e","_","p","a","t","t","e","r","n">>, required |-> FALSE, param_type |-> "string", default |-> JStr(<<"*">>),
      aliases |-> << <<"g","l","o","b">>, <<"f","i","l","e","s">>, <<"f","i","l","t","e","r">>, <<"e","x","t","e","n","s","i","o","n">> >>]
   >>],
  \* "edit_file": aliases replace, modify, update_file, patch
  [name |-> <<"e","d","i","t","_","f","i","l","e">>,
   aliases |-> << <<"r","e","p","l","a","c","e">>, <<"m","o","d","i","f","y">>, <<"u","p","d","a","t","e","_","f","i","l","e">>, <<"p","a","t","c","h">> >>,
   parameters |-> <<
     \* path (path): aliases filename, file, filepath; default None
     [name |-> <<"p","a","t","h">>, required |-> TRUE, param_type |-> "path", default |-> JNull,
      aliases |-> << <<"f","i","l","e","n","a","m","e">>, <<"f","i","l","e">>, <<"f","i","l","e","p","a","t","h">> >>],
     \* old_text (content): aliases find, search, original, from, old; default None
     [name |-> <<"o","l","d","_","t","e","x","t">>, required |-> TRUE, param_type |-> "content", default |-> JNull,
      aliases |-> << <<"f","i","n","d">>, <<"s","e","a","r","c","h">>, <<"o","r","i","g","i","n","a","l">>, <<"f","r","o","m">>, <<"o","l","d">> >>],
     \* new_text (content): aliases replace, replacement, to, new, with; default None
     [name |-> <<"n","e","w","_","t","e","x","t">>, required |-> TRUE, param_type |-> "content", default |-> JNull,
      aliases |-> << <<"r","e","p","l","a","c","e">>, <<"r","e","p","l","a","c","e","m","e","n","t">>, <<"t","o">>, <<"n","e","w">>, <<"w","i","t","h">> >>],
     \* all_occurrences? (string): aliases all, global, replace_all; default False
     [name |-> <<"a","l","l","_","o","c","c","u","r","r","e","n","c","e","s">>, required |-> FALSE, param_type |-> "string", default |-> JBool(FALSE),
      aliases |-> << <<"a","l","l">>, <<"g","l","o","b","a","l">>, <<"r","e","p","l","a","c","e","_","a","l","l">> >>]
   >>],
  \* "create_directory": aliases mkdir, make_dir, new_folder, create_folder
  [name |-> <<"c","r","e","a","t","e","_","d","i","r","e","c","t","o","r","y">>,
   aliases |-> << <<"m","k","d","i","r">>, <<"m","a","k","e","_","d","i","r">>, <<"n","e","w","_","f","o","l","d","e","r">>, <<"c","r","e","a","t","e","_","f","o","l","d","e","r">> >>,
   parameters |-> <<
     \* path (path): aliases directory, dir, folder, name; default None
     [name |-> <<"p","a","t","h">>, required |-> TRUE, param_type |-> "path", default |-> JNull,
      aliases |-> << <<"d","i","r","e","c","t","o","r","y">>, <<"d","i","r">>, <<"f","o","l","d","e","r">>, <<"n","a","m","e">> >>]
   >>],
  \* "delete_file": aliases rm, remove, delete, unlink, rmdir
  [name |-> <<"d","e","l","e","t","e","_","f","i","l","e">>,
   aliases |-> << <<"r","m">>, <<"r","e","m","o","v","e">>, <<"d","e","l","e","t","e">>, <<"u","n","l","i","n","k">>, <<"r","m","d","i","r">> >>,
   parameters |-> <<
     \* path (path): aliases filename, file, filepath, target; default None
     [name |-> <<"p","a","t","h">>, required |-> TRUE, param_type |-> "path", default |-> JNull,
      aliases |-> << <<"f","i","l","e","n","a","m","e">>, <<"f","i","l","e">>, <<"f","i","l","e","p","a","t","h">>, <<"t","a","r","g","e","t">> >>]
   >>],
  \* "list_tools": aliases help, tools, available_tools
  [name |-> <<"l","i","s","t","_","t","o","o","l","s">>,
   aliases |-> << <<"h","e","l","p">>, <<"t","o","o","l","s">>, <<"a","v","a","i","l","a","b","l","e","_","t","o","o","l","s">> >>,
   parameters |-> <<
   >>],
  \* "read_tool": aliases view_tool, tool_source
  [name |-> <<"r","e","a","d","_","t","o","o","l">>,
   aliases |-> << <<"v","i","e","w","_","t","o","o","l">>, <<"t","o","o","l","_","s","o","u","r","c","e">> >>,
   parameters |-> <<
     \* name (string): aliases tool, tool_name; default None
     [name |-> <<"n","a","m","e">>, required |-> TRUE, param_type |-> "string", default |-> JNull,
      aliases |-> << <<"t","o","o","l">>, <<"t","o","o","l","_","n","a","m","e">> >>]
   >>]
>>

(***************************************************************************)
(* ToolMiddleware (agent/tool_middleware.py)                               *)
(***************************************************************************)
RECURSIVE Flatten(_)
Flatten(seqs) == IF seqs = <<>> THEN <<>> ELSE Head(seqs) \o Flatten(Tail(seqs))

\* _build_alias_map: the (key, canonical name) assignments to tool_alias_map,
\* in the order the loops make them.
AliasAssignments ==
  Flatten([n \in 1..Len(TOOL_SCHEMAS) |->
             LET schema == TOOL_SCHEMAS[n]
             IN <<Item(schema.name, schema.name)>>
                \o [i \in 1..Len(schema.aliases) |-> Item(lower(schema.aliases[i]), schema.name)]])

\* self.all_tool_names
all_tool_names == Keys(AliasAssignments)

\* self.tool_alias_map[key]: the last assignment to key wins.
tool_alias_map(key) ==
  AliasAssignments[SetMax({i \in 1..Len(AliasAssignments) : AliasAssignments[i].k = key})].v

InAliasMap(key) == \E i \in 1..Len(AliasAssignments) : AliasAssignments[i].k = key

\* ToolMiddleware._resolve_tool_name
Matched(raw_name, matches) ==
  IF matches = <<>> THEN raw_name
  ELSE IF InAliasMap(matches[1]) THEN tool_alias_map(matches[1]) ELSE matches[1]

FuzzyToolName(raw_name) == Matched(raw_name, get_close_matches(raw_name, all_tool_names, 6, 10))

resolve_tool_name(raw_name) ==
  IF InAliasMap(raw_name) THEN tool_alias_map(raw_name) ELSE FuzzyToolName(raw_name)

\* TOOL_SCHEMAS.get(canonical_name)
HasSchema(name) == \E n \in 1..Len(TOOL_SCHEMAS) : TOOL_SCHEMAS[n].name = name

SchemaOf(name) == TOOL_SCHEMAS[CHOOSE n \in 1..Len(TOOL_SCHEMAS) : TOOL_SCHEMAS[n].name = name]

\* The loop body of _normalize_arguments for parameter param.  A lookup gives
\* [key, value, warnings]: matched_key ("" for None), value (JNull for None)
\* and the warnings it appends.
NotFound == [key |-> <<>>, value |-> JNull, warnings |-> <<>>]

\* The canonical name never looked up.
CanonicalLost(raw_args, param) == NotFound

\* if param.name in raw_args
CanonicalFound(raw_args, param) ==
  [key |-> param.name, value |-> Get(raw_args, param.name), warnings |-> <<>>]

\* for alias in param.aliases: if alias in raw_args
AliasFound(raw_args, param, alias) ==
  [key |-> alias, value |-> Get(raw_args, alias),
   warnings |-> << <<Lit("Arg '"), Chr(alias), Lit("' normalized to '"), Chr(param.name), Lit("'")>> >>]

LookupAlias(raw_args, param) ==
  LET present == {i \in 1..Len(param.aliases) : Has(raw_args, param.aliases[i])}
  IN IF present = {} THEN NotFound ELSE AliasFound(raw_args, param, param.aliases[SetMin(present)])

\* for key in remaining_keys: if get_close_matches(...)
FuzzyFound(raw_args, param, key, found) ==
  [key |-> key, value |-> Get(raw_args, key),
   warnings |-> Append(found.warnings,
                       <<Lit("Fuzzy matched '"), Chr(key), Lit("' to '"), Chr(param.name), Lit("'")>>)]

\* The fuzzy match on the remaining keys, run when value is None after the
\* alias lookup gave found.
LookupFuzzy(raw_args, param, used_raw_keys, found) ==
  LET remaining_keys == SelectSeq(Keys(raw_args), LAMBDA k : k \notin used_raw_keys)
      all_names == [i \in 1..(1 + Len(param.aliases)) |->
                      lower(IF i = 1 THEN param.name ELSE param.aliases[i - 1])]
      fuzzy == {i \in 1..Len(remaining_keys) :
                  get_close_matches(lower(remaining_keys[i]), all_names, 7, 10) # <<>>}
  IN IF found.value # JNull \/ fuzzy = {} THEN found
     ELSE FuzzyFound(raw_args, param, remaining_keys[SetMin(fuzzy)], found)

Lookup(raw_args, param, used_raw_keys) ==
  IF Has(raw_args, param.name) THEN CanonicalFound(raw_args, param)
  ELSE LookupFuzzy(raw_args, param, used_raw_keys, LookupAlias(raw_args, param))

\* if matched_key: ...; "Apply default or use found value", from the loop
\* state acc = [normalized, warnings, used_raw_keys].
Store(param, acc, found) ==
  [normalized    |-> IF found.value # JNull THEN Put(acc.normalized, param.name, found.value)
                     ELSE IF param.default # JNull
                     THEN Put(acc.normalized, param.name, param.default)
                     ELSE acc.normalized,
   warnings      |-> acc.warnings \o found.warnings \o
                     (IF found.value = JNull /\ param.default = JNull /\ param.required
                      THEN << <<Lit("Missing required parameter '"), Chr(param.name), Lit("'")>> >>
                      ELSE <<>>),
   used_raw_keys |-> IF found.key # <<>> THEN acc.used_raw_keys \cup {found.key}
                     ELSE acc.used_raw_keys]

NormalizeParam(raw_args, param, acc) ==
  Store(param, acc, Lookup(raw_args, param, acc.used_raw_keys))

\* ToolMiddleware._normalize_arguments: the loop over schema.parameters.
RECURSIVE NormalizeFrom(_, _, _, _)
NormalizeFrom(raw_args, parameters, n, acc) ==
  IF n > Len(parameters) THEN acc
  ELSE NormalizeFrom(raw_args, parameters, n + 1, NormalizeParam(raw_args, parameters[n], acc))

normalize_arguments(raw_args, schema) ==
  NormalizeFrom(raw_args, schema.parameters, 1,
                [normalized |-> <<>>, warnings |-> <<>>, used_raw_keys |-> {}])

\* str.replace(old, new) for a one-character old; new is a string.
RECURSIVE Replace(_, _, _)
Replace(s, old, new) ==
  IF s = <<>> THEN <<>>
  ELSE (IF Head(s) = old THEN new ELSE <<Head(s)>>) \o Replace(Tail(s), old, new)

\* str.lstrip(c)
RECURSIVE LStrip(_, _)
LStrip(s, c) == IF s # <<>> /\ Head(s) = c THEN LStrip(Tail(s), c) ELSE s

\* str.rstrip(c)
RECURSIVE RStrip(_, _)
RStrip(s, c) ==
  IF s # <<>> /\ s[Len(s)] = c THEN RStrip(SubSeq(s, 1, Len(s) - 1), c) ELSE s

\* re.sub(r'/+', '/', s)
RECURSIVE CollapseSlashes(_)
CollapseSlashes(s) ==
  IF s = <<>> THEN <<>>
  ELSE IF Head(s) = "/" THEN <<"/">> \o CollapseSlashes(LStrip(s, "/"))
  ELSE <<Head(s)>> \o CollapseSlashes(Tail(s))

\* str.split(sep): the list of the pieces between the separators.
RECURSIVE Split(_, _)
Split(s, sep) ==
  LET at == {i \in 1..Len(s) : s[i] = sep}
  IN IF at = {} THEN <<s>>
     ELSE <<SubSeq(s, 1, SetMin(at) - 1)>> \o Split(SubSeq(s, SetMin(at) + 1, Len(s)), sep)

\* sep.join(parts)
RECURSIVE Join(_, _)
Join(parts, sep) ==
  IF parts = <<>> THEN <<>>
  ELSE IF Len(parts) = 1 THEN parts[1]
  ELSE parts[1] \o <<sep>> \o Join(Tail(parts), sep)

\* The parts kept as they are.
SafePartsKept(parts, safe_parts) == parts

\* The loop of _sanitize_path over the parts: '..' pops, '' and '.' are dropped.
RECURSIVE SafeParts(_, _)
SafeParts(parts, safe_parts) ==
  IF parts = <<>> THEN safe_parts
  ELSE LET part == Head(parts)
       IN SafeParts(Tail(parts),
                    IF part = <<".", ".">>
                    THEN (IF safe_parts # <<>> THEN SubSeq(safe_parts, 1, Len(safe_parts) - 1)
                          ELSE safe_parts)
                    ELSE IF part # <<>> /\ part # <<".">> THEN Append(safe_parts, part)
                    ELSE safe_parts)

\* The null byte '\x00', one character.
NUL == "\\x00"

\* The backslashes turned into slashes only after the parts are joined.
sanitize_path_slashes_last(path, workspace_set) ==
  LET p1 == Replace(path, NUL, <<>>)
      p3 == IF workspace_set THEN LStrip(p1, "/") ELSE p1
      p4 == CollapseSlashes(p3)
      joined == Replace(Join(SafeParts(Split(p4, "/"), <<>>), "/"), "\\", <<"/">>)
  IN IF joined = <<>> THEN <<".">> ELSE joined

\* ToolMiddleware._sanitize_path, with self.workspace set or not.
sanitize_path(path, workspace_set) ==
  LET p1 == Replace(path, NUL, <<>>)
      p2 == Replace(p1, "\\", <<"/">>)
      p3 == IF workspace_set THEN LStrip(p2, "/") ELSE p2
      p4 == CollapseSlashes(p3)
      joined == Join(SafeParts(Split(p4, "/"), <<>>), "/")
  IN IF joined = <<>> THEN <<".">> ELSE joined

\* ToolMiddleware._validate_paths: the loop over schema.parameters from n,
\* acc = [validated, warnings].
RECURSIVE ValidateFrom(_, _, _)
ValidateFrom(parameters, n, acc) ==
  IF n > Len(parameters) THEN acc
  ELSE LET param == parameters[n]
           check == param.param_type = "path" /\ Has(acc.validated, param.name)
           path_value == Get(acc.validated, param.name)
           sanitized  == sanitize_path(path_value.s, TRUE)
       IN ValidateFrom(parameters, n + 1,
            IF check /\ IsStr(path_value)
            THEN [validated |-> Put(acc.validated, param.name, JStr(sanitized)),
                  warnings  |-> IF sanitized # path_value.s
                                THEN Append(acc.warnings,
                                            <<Lit("Path sanitized: '"), Chr(path_value.s),
                                              Lit("' -> '"), Chr(sanitized), Lit("'")>>)
                                ELSE acc.warnings]
            ELSE acc)

validate_paths(args, schema) ==
  ValidateFrom(schema.parameters, 1, [validated |-> args, warnings |-> <<>>])

Key_tool == <<"t","o","o","l">>

Key_args == <<"a","r","g","s">>

\* f"Tool '{raw_tool_name}' resolved to '{canonical_name}'", when they differ
ResolvedWarnings(raw_tool_name, canonical_name) ==
  IF canonical_name # raw_tool_name
  THEN << <<Lit("Tool '"), Chr(raw_tool_name), Lit("' resolved to '"), Chr(canonical_name), Lit("'")>> >>
  ELSE <<>>

\* What normalize_tool_call returns: ({"tool": ..., "args": ...}, warnings).
Returned(canonical_name, args, warnings) ==
  [raised |-> FALSE,
   call |-> <<Item(Key_tool, JStr(canonical_name)), Item(Key_args, JObj(args))>>,
   warnings |-> warnings]

\* Step 4 of normalize_tool_call: the paths are validated if a workspace is set.
Step4(canonical_name, schema, normalized, warnings, workspace_set) ==
  IF workspace_set
  THEN Returned(canonical_name, validate_paths(normalized, schema).validated,
                warnings \o validate_paths(normalized, schema).warnings)
  ELSE Returned(canonical_name, normalized, warnings)

\* Step 3: the arguments are normalized.
Step3(canonical_name, schema, norm, warnings, workspace_set) ==
  Step4(canonical_name, schema, norm.normalized, warnings \o norm.warnings, workspace_set)

\* Step 2: the schema is looked up; an unknown tool passes through.
Step2(canonical_name, raw_args, warnings, workspace_set) ==
  IF ~HasSchema(canonical_name)
  THEN Returned(canonical_name, raw_args,
                Append(warnings, <<Lit("Unknown tool '"), Chr(canonical_name),
                                   Lit("' - passing through")>>))
  ELSE Step3(canonical_name, SchemaOf(canonical_name),
             normalize_arguments(raw_args, SchemaOf(canonical_name)), warnings, workspace_set)

\* Step 1: the tool name is resolved.
Step1(raw_tool_name, canonical_name, raw_args, workspace_set) ==
  Step2(canonical_name, raw_args, ResolvedWarnings(raw_tool_name, canonical_name), workspace_set)

\* raw_args = tool_call.get("args", {}), replaced by {} when it is no dict
RawArgs(tool_call) ==
  IF IsDict(GetOr(tool_call.f, Key_args, JObj(<<>>)))
  THEN GetOr(tool_call.f, Key_args, JObj(<<>>)).f
  ELSE <<>>

\* ToolMiddleware.normalize_tool_call, with self.workspace set or not.  The
\* result is [raised, call, warnings]: raised when the call ends in an
\* exception (str methods on a 'tool' value that is no str) instead of
\* returning the pair (call, warnings).
normalize_tool_call(tool_call, workspace_set) ==
  IF ~IsDict(tool_call)
  THEN Returned(<<"u","n","k","n","o","w","n">>, <<>>, << <<Lit("Invalid tool call format")>> >>)
  ELSE IF ~IsStr(GetOr(tool_call.f, Key_tool, JStr(<<>>)))
  THEN [raised |-> TRUE, call |-> <<>>, warnings |-> <<>>]
  ELSE Step1(strip(lower(GetOr(tool_call.f, Key_tool, JStr(<<>>)).s)),
             resolve_tool_name(strip(lower(GetOr(tool_call.f, Key_tool, JStr(<<>>)).s))),
             RawArgs(tool_call), workspace_set)

(***************************************************************************)
(* The filesystem.  A path is the sequence of its components from the      *)
(* root; the disk maps every existing path to a directory or a file.       *)
(* There are no symbolic links.                                            *)
(***************************************************************************)
Dir == [kind |-> "dir"]

File(content) == [kind |-> "file", content |-> content]

\* Path.exists(), is_dir(), is_file() on disk d
Exists(d, p) == p \in DOMAIN d

IsDir(d, p) == Exists(d, p) /\ d[p].kind = "dir"

IsFile(d, p) == Exists(d, p) /\ d[p].kind = "file"

\* Path.parent
Parent(p) == IF p = <<>> THEN <<>> ELSE SubSeq(p, 1, Len(p) - 1)

\* relative_to never failing.
IsWithinAlways(p, root) == TRUE

\* p.relative_to(root) succeeds
IsWithin(p, root) == Len(p) >= Len(root) /\ SubSeq(p, 1, Len(root)) = root

\* "not v" for a JSON value
Falsy(v) == v \in {JNull, JStr(<<>>), JNum(0), JBool(FALSE), JObj(<<>>)}

\* The components pathlib keeps of a path string: '' and '.' are dropped.
Components(s) == SelectSeq(Split(s, "/"), LAMBDA part : part # <<>> /\ part # <<".">>)

\* Path.resolve() without symbolic links: '..' steps to the parent, and the
\* parent of the root is the root.
RECURSIVE Resolve(_, _)
Resolve(parts, acc) ==
  IF parts = <<>> THEN acc
  ELSE Resolve(Tail(parts),
               IF Head(parts) = <<".", ".">> THEN Parent(acc) ELSE Append(acc, Head(parts)))

\* str(path)
PathText(p) == <<"/">> \o Join(p, "/")

\* The process working directory, Path.cwd().
Cwd == << <<"s","r","v">> >>

NoWorkspace == [set |-> FALSE, path |-> <<>>]

Workspace(p) == [set |-> TRUE, path |-> p]

\* AgentLoop._get_effective_workspace
get_effective_workspace(workspace_dir, d) ==
  IF workspace_dir.set /\ Exists(d, workspace_dir.path) THEN workspace_dir.path ELSE Cwd

\* AgentLoop._resolve_path: [raised, path].  Path(path) raises TypeError for
\* a value that is no str and resolve() raises ValueError for a null byte.
resolve_path(path, workspace_dir, d) ==
  LET workspace == get_effective_workspace(workspace_dir, d)
  IN IF Falsy(path) \/ path = JStr(<<".">>) THEN [raised |-> FALSE, path |-> workspace]
     ELSE IF ~IsStr(path) THEN [raised |-> TRUE, path |-> <<>>]
     ELSE IF \E i \in 1..Len(path.s) : path.s[i] = NUL THEN [raised |-> TRUE, path |-> <<>>]
     ELSE LET resolved == IF Head(path.s) = "/"
                          THEN Resolve(Components(path.s), <<>>)
                          ELSE Resolve(workspace \o Components(path.s), <<>>)
          IN [raised |-> FALSE,
              path |-> IF IsWithin(resolved, workspace) THEN resolved ELSE workspace]

(***************************************************************************)
(* FileChangeTracker (agent/file_tracker.py).  tracked_files is the dict   *)
(* from normalized path to TrackedFile; a content is JNull for None.       *)
(***************************************************************************)
TrackedFile(path, original_content, new_content, exists_originally) ==
  [path |-> path, original_content |-> original_content,
   new_content |-> new_content, exists_originally |-> exists_originally]

\* FileChangeTracker._normalize_path: path.replace("\\", "/").strip("/")
normalize_path(path) == RStrip(LStrip(Replace(path, "\\", <<"/">>), "/"), "/")

\* A read that records what it sees even for a path already tracked.
record_read_overwrites(tracked_files, enabled, path, content, exists) ==
  IF ~enabled THEN tracked_files
  ELSE Put(tracked_files, normalize_path(path),
           TrackedFile(normalize_path(path), IF exists THEN JStr(content) ELSE JNull, JNull, exists))

\* A read that records every file as missing.
record_read_as_missing(tracked_files, enabled, path, content, exists) ==
  LET normalized == normalize_path(path)
  IN IF ~enabled \/ Has(tracked_files, normalized) THEN tracked_files
     ELSE Put(tracked_files, normalized, TrackedFile(normalized, JNull, JNull, FALSE))

\* FileChangeTracker.record_read
record_read(tracked_files, enabled, path, content, exists) ==
  LET normalized == normalize_path(path)
  IN IF ~enabled \/ Has(tracked_files, normalized) THEN tracked_files
     ELSE Put(tracked_files, normalized,
              TrackedFile(normalized, IF exists THEN JStr(content) ELSE JNull, JNull, exists))

\* FileChangeTracker.record_write
record_write(tracked_files, enabled, path, content) ==
  LET normalized == normalize_path(path)
  IN IF ~enabled THEN tracked_files
     ELSE IF Has(tracked_files, normalized)
     THEN Put(tracked_files, normalized,
              [Get(tracked_files, normalized) EXCEPT !.new_content = JStr(content)])
     ELSE Put(tracked_files, normalized, TrackedFile(normalized, JNull, JStr(content), FALSE))

\* A delete recorded whether tracking is enabled or not.
record_delete_unguarded(tracked_files, enabled, path) ==
  IF Has(tracked_files, normalize_path(path))
  THEN Put(tracked_files, normalize_path(path),
           [Get(tracked_files, normalize_path(path)) EXCEPT !.new_content = JNull])
  ELSE Put(tracked_files, normalize_path(path), TrackedFile(normalize_path(path), JNull, JNull, TRUE))

\* FileChangeTracker.record_delete
record_delete(tracked_files, enabled, path) ==
  LET normalized == normalize_path(path)
  IN IF ~enabled THEN tracked_files
     ELSE IF Has(tracked_files, normalized)
     THEN Put(tracked_files, normalized,
              [Get(tracked_files, normalized) EXCEPT !.new_content = JNull])
     ELSE Put(tracked_files, normalized, TrackedFile(normalized, JNull, JNull, TRUE))

\* TrackedFile.has_changes
has_changes(tracked) == tracked.original_content # tracked.new_content

\* The classification that never says create.
operation_without_create(tracked) ==
  IF tracked.original_content # JNull /\ tracked.new_content = JNull THEN "delete"
  ELSE IF has_changes(tracked) THEN "modify"
  ELSE "unchanged"

\* TrackedFile.operation
operation(tracked) ==
  IF ~tracked.exists_originally /\ tracked.new_content # JNull THEN "create"
  ELSE IF tracked.original_content # JNull /\ tracked.new_content = JNull THEN "delete"
  ELSE IF has_changes(tracked) THEN "modify"
  ELSE "unchanged"

\* (content or "").splitlines(keepends=True) with the last line ended by a
\* newline, for a content of at most one line that holds no newline.
DiffLines(content) ==
  IF content = JNull \/ content = JStr(<<>>) THEN <<>> ELSE <<content.s \o <<"\n">>>>

\* FileChangeTracker.generate_diff: JNull for None; otherwise the unified
\* diff, given by the arguments difflib.unified_diff is called with.
generate_diff(tracked_files, path) ==
  IF ~Has(tracked_files, normalize_path(path)) THEN JNull
  ELSE IF ~has_changes(Get(tracked_files, normalize_path(path))) THEN JNull
  ELSE [old_lines |-> DiffLines(Get(tracked_files, normalize_path(path)).original_content),
        new_lines |-> DiffLines(Get(tracked_files, normalize_path(path)).new_content),
        fromfile  |-> <<Lit("a/"), Chr(normalize_path(path))>>,
        tofile    |-> <<Lit("b/"), Chr(normalize_path(path))>>]

\* models.FileChange
FileChange(path, op, old_content, new_content) ==
  [path |-> path, operation |-> op, old_content |-> old_content, new_content |-> new_content]

\* The listing that takes in every tracked file.
get_changes_unfiltered(tracked_files) ==
  [i \in 1..Len(tracked_files) |->
     FileChange(tracked_files[i].v.path, operation(tracked_files[i].v),
                tracked_files[i].v.original_content, tracked_files[i].v.new_content)]

\* FileChangeTracker.get_changes: the tracked files, in the order of the
\* dict, that have changes or an operation other than unchanged.
ChangedValues(tracked_files) ==
  SelectSeq([i \in 1..Len(tracked_files) |-> tracked_files[i].v],
            LAMBDA tracked : has_changes(tracked) \/ operation(tracked) # "unchanged")

get_changes(tracked_files) ==
  [i \in 1..Len(ChangedValues(tracked_files)) |->
     FileChange(ChangedValues(tracked_files)[i].path, operation(ChangedValues(tracked_files)[i]),
                ChangedValues(tracked_files)[i].original_content,
                ChangedValues(tracked_files)[i].new_content)]

\* sum(1 for c in changes if c.operation == op)
CountOperation(changes, op) == Cardinality({i \in 1..Len(changes) : changes[i].operation = op})

\* FileChangeTracker.get_summary
get_summary(tracked_files) ==
  [total_files |-> Len(get_changes(tracked_files)),
   created     |-> CountOperation(get_changes(tracked_files), "create"),
   modified    |-> CountOperation(get_changes(tracked_files), "modify"),
   deleted     |-> CountOperation(get_changes(tracked_files), "delete"),
   files       |-> [i \in 1..Len(get_changes(tracked_files)) |->
                      [path |-> get_changes(tracked_files)[i].path,
                       operation |-> get_changes(tracked_files)[i].operation]]]

(***************************************************************************)
(* The tools of AgentLoop._execute_tool.  A tool returns                   *)
(* [text, threw, disk, tracked_files, args]: its result text, whether an   *)
(* exception was raised (and caught) while it ran, and the disk, the       *)
(* tracker and the args dict as it leaves them.                            *)
(***************************************************************************)
Key_path == <<"p","a","t","h">>

Key_content == <<"c","o","n","t","e","n","t">>

Key_command == <<"c","o","m","m","a","n","d">>

Key_name == <<"n","a","m","e">>

Key_workspace == <<"_","w","o","r","k","s","p","a","c","e">>

\* The literal that opens an error result; ToolResult status is decided on it.
ErrorMarker == Lit("Error:")

Outcome(text, threw, env) ==
  [text |-> text, threw |-> threw, disk |-> env.disk,
   tracked_files |-> env.tracked_files, args |-> env.args]

\* The scripts of the tools directory (local_tools/*.py): for each stem, what
\* the function of that name does when called; "absent" when the module
\* defines no such function.
local_tools ==
  << Item(<<"d","e","p","l","o","y">>, [does |-> "raises"]),
     Item(<<"p","i","n","g">>, [does |-> "returns", text |-> <<Lit("pong")>>]),
     Item(<<"r","e","a","d","_","f","i","l","e">>, [does |-> "returns", text |-> <<Lit("stub")>>]) >>

\* AgentLoop._list_available_tools
list_available_tools ==
  <<Lit("Built-in tools:\n  - list_tools: List all available tools\n  - read_tool(name): Read a tool's source code\n  - run_command(command): Execute a shell command in workspace\n  - list_directory(path): List directory contents\n  - read_file(path): Read file contents\n  - write_file(path, content): Write content to a file\n\nCustom tools from local_tools/:")>>
  \o Flatten([i \in 1..Len(local_tools) |-> <<Lit("\n  - "), Chr(local_tools[i].k)>>])

\* AgentLoop._read_tool_file; f"{name}.py" names a script only for a str name.
read_tool_file(name) ==
  IF Falsy(name) THEN <<ErrorMarker, Lit(" No tool name provided")>>
  ELSE IF IsStr(name) /\ Has(local_tools, name.s)
  THEN <<Lit("Source code for '"), Val(name), Lit("':\n"), Fences, Lit("python\n"),
         Chr(name.s), Lit("\n"), Fences>>
  ELSE <<Lit("Tool '"), Val(name), Lit("' not found in local_tools directory")>>

\* Commands given to run_command: one that outlasts the timeout of 30
\* seconds and one that ends with exit code 1.
Cmd_sleep == <<"s","l","e","e","p"," ","6","0">>

Cmd_false == <<"f","a","l","s","e">>

\* subprocess.run(["/bin/bash", "-c", command], cwd=cwd, capture_output=True,
\* text=True, timeout=timeout): the exception it raises ("none" when it
\* returns) and the CompletedProcess.  A command that is no str is a
\* TypeError and a null byte in it a ValueError.
subprocess_run(command, cwd) ==
  IF ~IsStr(command)
  THEN [raises |-> "TypeError", stdout |-> <<>>, stderr |-> <<>>, returncode |-> 0]
  ELSE IF \E i \in 1..Len(command.s) : command.s[i] = NUL
  THEN [raises |-> "ValueError", stdout |-> <<>>, stderr |-> <<>>, returncode |-> 0]
  ELSE IF command.s = Cmd_sleep
  THEN [raises |-> "TimeoutExpired", stdout |-> <<>>, stderr |-> <<>>, returncode |-> 0]
  ELSE IF command.s = Cmd_false
  THEN [raises |-> "none", stdout |-> <<>>, stderr |-> <<>>, returncode |-> 1]
  ELSE [raises |-> "none", stdout |-> <<>>, stderr |-> <<>>, returncode |-> 0]

\* CommandResult(stdout, stderr, return_code); raised is set when run_command
\* ends with an exception instead of a result.
CommandResult(stdout, stderr, return_code) ==
  [raised |-> FALSE, stdout |-> stdout, stderr |-> stderr, return_code |-> return_code]

\* run_command without its except clauses.
run_command_uncaught(command, cwd) ==
  IF subprocess_run(command, cwd).raises # "none"
  THEN [raised |-> TRUE, stdout |-> <<>>, stderr |-> <<>>, return_code |-> 0]
  ELSE CommandResult(subprocess_run(command, cwd).stdout, subprocess_run(command, cwd).stderr,
                     subprocess_run(command, cwd).returncode)

\* platform_utils.run_command: the except clauses turn a timeout and any
\* other exception into a result with return code -1.
run_command(command, cwd) ==
  IF subprocess_run(command, cwd).raises = "none"
  THEN CommandResult(subprocess_run(command, cwd).stdout, subprocess_run(command, cwd).stderr,
                     subprocess_run(command, cwd).returncode)
  ELSE IF subprocess_run(command, cwd).raises = "TimeoutExpired"
  THEN CommandResult(<<>>, <<Lit("Command timed out")>>, -1)
  ELSE CommandResult(<<>>, <<Exc(subprocess_run(command, cwd).raises)>>, -1)

\* The run_command branch of _execute_tool.
tool_run_command(command, env) ==
  LET result == run_command(command, env.workspace_dir)
  IN Outcome((IF result.stdout # <<>> THEN <<Lit("stdout:\n")>> \o result.stdout \o <<Lit("\n")>>
              ELSE <<>>)
             \o (IF result.stderr # <<>> THEN <<Lit("stderr:\n")>> \o result.stderr \o <<Lit("\n")>>
                 ELSE <<>>)
             \o <<Lit("exit code: "), Num(result.return_code)>>,
             ~IsStr(command), env)

\* sorted(resolved.iterdir()): the children of directory p in name order.
RECURSIVE SortedNames(_)
SortedNames(names) ==
  IF names = {} THEN <<>>
  ELSE LET first == CHOOSE n \in names : \A m \in names \ {n} : StrLess(n, m)
       IN <<first>> \o SortedNames(names \ {first})

Children(d, p) == SortedNames({q[Len(q)] : q \in {q \in DOMAIN d : Len(q) = Len(p) + 1 /\ Parent(q) = p}})

\* item.relative_to(self.workspace_dir), as the text it prints; item.name when
\* no workspace is set or the item is not under it.
RelativeName(item, workspace_dir) ==
  IF workspace_dir.set /\ IsWithin(item, workspace_dir.path)
  THEN Join(SubSeq(item, Len(workspace_dir.path) + 1, Len(item)), "/")
  ELSE item[Len(item)]

\* A listing that files the directory with the tracker as a written path.
tool_list_directory_tracked(path, env) ==
  Outcome(<<Lit("Contents of '"), Val(path), Lit("':")>>, FALSE,
          [env EXCEPT !.tracked_files = record_write(env.tracked_files, TRUE, <<".">>, <<>>)])

\* AgentLoop._tool_list_directory
tool_list_directory(path, env) ==
  LET r == resolve_path(path, env.workspace_dir, env.disk)
      resolved == r.path
      names == Children(env.disk, resolved)
      items == Flatten([i \in 1..Len(names) |->
                 <<Lit(IF IsDir(env.disk, Append(resolved, names[i])) THEN "\ndir: " ELSE "\nfile: "),
                   Chr(RelativeName(Append(resolved, names[i]), env.workspace_dir))>>])
  IN IF r.raised
     THEN Outcome(<<Lit("Error listing directory: "), Exc("TypeError")>>, TRUE, env)
     ELSE IF ~Exists(env.disk, resolved)
     THEN Outcome(<<ErrorMarker, Lit(" Directory '"), Val(path), Lit("' does not exist")>>, FALSE, env)
     ELSE IF ~IsDir(env.disk, resolved)
     THEN Outcome(<<ErrorMarker, Lit(" '"), Val(path), Lit("' is not a directory")>>, FALSE, env)
     ELSE IF names = <<>>
     THEN Outcome(<<Lit("Directory '"), Val(path), Lit("' is empty")>>, FALSE, env)
     ELSE Outcome(<<Lit("Contents of '"), Val(path), Lit("':")>> \o items, FALSE, env)

\* The size limit of _tool_read_file: 100 * 1024 bytes.
MaxReadSize == 102400

\* AgentLoop._tool_read_file
tool_read_file(path, env) ==
  LET r == resolve_path(path, env.workspace_dir, env.disk)
      resolved == r.path
      content == env.disk[resolved].content
  IN IF Falsy(path)
     THEN Outcome(<<ErrorMarker, Lit(" No file path provided")>>, FALSE, env)
     ELSE IF r.raised
     THEN Outcome(<<Lit("Error reading file: "), Exc("TypeError")>>, TRUE, env)
     ELSE IF ~Exists(env.disk, resolved)
     THEN Outcome(<<ErrorMarker, Lit(" File '"), Val(path), Lit("' does not exist")>>, FALSE,
                  [env EXCEPT !.tracked_files =
                     record_read(env.tracked_files, env.tracker_enabled, path.s, <<>>, FALSE)])
     ELSE IF ~IsFile(env.disk, resolved)
     THEN Outcome(<<ErrorMarker, Lit(" '"), Val(path), Lit("' is not a file")>>, FALSE, env)
     ELSE IF Len(content) > MaxReadSize
     THEN Outcome(<<ErrorMarker, Lit(" File '"), Val(path), Lit("' is too large ("),
                    Num(Len(content)), Lit(" bytes). Maximum is 100KB.")>>, FALSE, env)
     ELSE Outcome(<<Lit("Contents of '"), Val(path), Lit("':\n"), Fences, Lit("\n"),
                    Chr(content), Lit("\n"), Fences>>,
                  FALSE,
                  [env EXCEPT !.tracked_files =
                     record_read(env.tracked_files, env.tracker_enabled, path.s, content, TRUE)])

\* resolved.parent.mkdir(parents=True, exist_ok=True) fails when a file stands
\* where a directory is needed.
MkdirFails(d, dir) == \E n \in 0..Len(dir) : IsFile(d, SubSeq(dir, 1, n))

Mkdir(d, dir) ==
  [p \in DOMAIN d \cup {SubSeq(dir, 1, n) : n \in 0..Len(dir)} |->
     IF p \in DOMAIN d THEN d[p] ELSE Dir]

\* resolved.write_text(content): the disk with the file written.
WriteText(d, p, content) == [q \in DOMAIN d \cup {p} |-> IF q = p THEN File(content) ELSE d[q]]

\* AgentLoop._tool_write_file
tool_write_file(path, content, env) ==
  LET r == resolve_path(path, env.workspace_dir, env.disk)
      resolved == r.path
      \* the read before the write, for a file that exists and is not tracked
      \* under the path as given; a failure to read it is passed over
      tracked == IF Exists(env.disk, resolved) /\ ~Has(env.tracked_files, path.s)
                    /\ IsFile(env.disk, resolved)
                 THEN record_read(env.tracked_files, env.tracker_enabled, path.s,
                                  env.disk[resolved].content, TRUE)
                 ELSE env.tracked_files
      env1 == [env EXCEPT !.tracked_files = tracked]
      made == Mkdir(env.disk, Parent(resolved))
  IN IF Falsy(path)
     THEN Outcome(<<ErrorMarker, Lit(" No file path provided")>>, FALSE, env)
     ELSE IF content = JNull
     THEN Outcome(<<ErrorMarker, Lit(" No content provided")>>, FALSE, env)
     ELSE IF r.raised
     THEN Outcome(<<Lit("Error writing file: "), Exc("TypeError")>>, TRUE, env)
     ELSE IF MkdirFails(env.disk, Parent(resolved))
     THEN Outcome(<<Lit("Error writing file: "), Exc("FileExistsError")>>, TRUE, env1)
     ELSE IF ~IsStr(content)
     THEN Outcome(<<Lit("Error writing file: "), Exc("TypeError")>>, TRUE,
                  [env1 EXCEPT !.disk = made])
     ELSE IF IsDir(made, resolved)
     THEN Outcome(<<Lit("Error writing file: "), Exc("IsADirectoryError")>>, TRUE,
                  [env1 EXCEPT !.disk = made])
     ELSE Outcome(<<Lit("Successfully wrote "), Num(Len(content.s)), Lit(" characters to '"),
                    Val(path), Lit("'")>>, FALSE,
                  [env1 EXCEPT !.disk = WriteText(made, resolved, content.s),
                               !.tracked_files =
                                  record_write(tracked, env.tracker_enabled, path.s, content.s)])

\* The dynamic branch of _execute_tool: a script of the tools directory.
tool_dynamic(tool_name, env) ==
  LET script == Get(local_tools, tool_name)
      args == IF env.workspace_dir.set
              THEN Put(env.args, Key_workspace, JStr(PathText(env.workspace_dir.path)))
              ELSE env.args
      env1 == [env EXCEPT !.args = args]
  IN IF script.does = "returns" THEN Outcome(script.text, FALSE, env1)
     ELSE IF script.does = "raises"
     THEN Outcome(<<Lit("Tool execution error: "), Exc("RuntimeError")>>, TRUE, env1)
     ELSE Outcome(<<Lit("Tool '"), Chr(tool_name),
                    Lit("' not found. Use 'list_tools' to see available tools.")>>, FALSE, env)

Name_list_tools == <<"l","i","s","t","_","t","o","o","l","s">>

Name_read_tool == <<"r","e","a","d","_","t","o","o","l">>

Name_run_command == <<"r","u","n","_","c","o","m","m","a","n","d">>

Name_list_directory == <<"l","i","s","t","_","d","i","r","e","c","t","o","r","y">>

Name_read_file == <<"r","e","a","d","_","f","i","l","e">>

Name_write_file == <<"w","r","i","t","e","_","f","i","l","e">>

\* A dispatch that looks for a script of the tools directory before the
\* built-in handlers.
execute_tool_scripts_first(tool_call, st) ==
  LET tool_name == GetOr(tool_call, Key_tool, JStr(<<>>)).s
      args == GetOr(tool_call, Key_args, JObj(<<>>)).f
      env == [disk |-> st.disk, tracked_files |-> st.tracked_files,
              tracker_enabled |-> st.tracker_enabled, workspace_dir |-> st.workspace_dir,
              args |-> args]
  IN IF Has(local_tools, tool_name) THEN tool_dynamic(tool_name, env)
     ELSE IF tool_name = Name_list_tools THEN Outcome(list_available_tools, FALSE, env)
     ELSE IF tool_name = Name_read_tool
     THEN Outcome(read_tool_file(GetOr(args, Key_name, JStr(<<>>))), FALSE, env)
     ELSE IF tool_name = Name_run_command
     THEN tool_run_command(GetOr(args, Key_command, JStr(<<>>)), env)
     ELSE IF tool_name = Name_list_directory
     THEN tool_list_directory(GetOr(args, Key_path, JStr(<<".">>)), env)
     ELSE IF tool_name = Name_read_file
     THEN tool_read_file(GetOr(args, Key_path, JStr(<<>>)), env)
     ELSE IF tool_name = Name_write_file
     THEN tool_write_file(GetOr(args, Key_path, JStr(<<>>)), GetOr(args, Key_content, JStr(<<>>)), env)
     ELSE Outcome(<<Lit("Tool '"), Chr(tool_name),
                    Lit("' not found. Use 'list_tools' to see available tools.")>>, FALSE, env)

\* AgentLoop._execute_tool on the normalized call; st = [disk, tracked_files,
\* tracker_enabled, workspace_dir].
execute_tool(tool_call, st) ==
  LET tool_name == GetOr(tool_call, Key_tool, JStr(<<>>)).s
      args == GetOr(tool_call, Key_args, JObj(<<>>)).f
      env == [disk |-> st.disk, tracked_files |-> st.tracked_files,
              tracker_enabled |-> st.tracker_enabled, workspace_dir |-> st.workspace_dir,
              args |-> args]
  IN IF tool_name = Name_list_tools THEN Outcome(list_available_tools, FALSE, env)
     ELSE IF tool_name = Name_read_tool
     THEN Outcome(read_tool_file(GetOr(args, Key_name, JStr(<<>>))), FALSE, env)
     ELSE IF tool_name = Name_run_command
     THEN tool_run_command(GetOr(args, Key_command, JStr(<<>>)), env)
     ELSE IF tool_name = Name_list_directory
     THEN tool_list_directory(GetOr(args, Key_path, JStr(<<".">>)), env)
     ELSE IF tool_name = Name_read_file
     THEN tool_read_file(GetOr(args, Key_path, JStr(<<>>)), env)
     ELSE IF tool_name = Name_write_file
     THEN tool_write_file(GetOr(args, Key_path, JStr(<<>>)), GetOr(args, Key_content, JStr(<<>>)), env)
     ELSE IF Has(local_tools, tool_name) THEN tool_dynamic(tool_name, env)
     ELSE Outcome(<<Lit("Tool '"), Chr(tool_name),
                    Lit("' not found. Use 'list_tools' to see available tools.")>>, FALSE, env)

(***************************************************************************)
(* The text of an LLM response: the sequence of its segments, prose and    *)
(* fenced blocks (a fence of three backquotes and a marker, the body, a     *)
(* closing fence), every fence closed.  The body of a block is             *)
(*   object  text that json.loads parses to the dict obj (after            *)
(*           _fix_multiline_json); tool_first when the text reads          *)
(*           { "tool" ... from its start;                                  *)
(*   broken  text that opens with { and that json.loads rejects; closes    *)
(*           when it ends with };                                          *)
(*   code    any text that does not open with {.                           *)
(* No body contains a backquote.  The empty sequence is the empty text.    *)
(***************************************************************************)
Prose(s) == [seg |-> "prose", text |-> s]

Fence(marker, body) == [seg |-> "fence", marker |-> marker, body |-> body]

Object(obj, tool_first) == [shape |-> "object", obj |-> obj, tool_first |-> tool_first]

Broken(tool_first, closes) == [shape |-> "broken", tool_first |-> tool_first, closes |-> closes]

Code == [shape |-> "code"]

\* The fence markers of _extract_tool_call, in its order; "" is the bare fence.
Markers == <<"tool", "json", "">>

\* response.find(marker): every fence opens with the bare one, so the bare marker
\* finds the first fence whatever its info string.
FindMarker(response, marker) ==
  {i \in 1..Len(response) :
     response[i].seg = "fence" /\ (marker = "" \/ response[i].marker = marker)}

\* an extraction that takes every JSON object for a call
RECURSIVE ExtractAnyObject(_, _)
ExtractAnyObject(response, n) ==
  IF n > Len(Markers) THEN [found |-> FALSE, call |-> JNull]
  ELSE LET at == FindMarker(response, Markers[n])
           block == response[SetMin(at)]
       IN IF at = {} THEN ExtractAnyObject(response, n + 1)
          ELSE IF block.marker # Markers[n] \/ block.body.shape = "code"
          THEN ExtractAnyObject(response, n + 1)
          ELSE IF block.body.shape = "broken" THEN [found |-> FALSE, call |-> JNull]
          ELSE [found |-> TRUE, call |-> block.body.obj]

\* AgentLoop._extract_tool_call from marker n on: [found, call].  A block
\* whose text does not open with { is skipped (after the bare marker the text
\* of a tool or json block opens with its info string); a JSONDecodeError
\* ends the whole search; a dict without 'tool' is skipped.
RECURSIVE ExtractFrom(_, _)
ExtractFrom(response, n) ==
  IF n > Len(Markers) THEN [found |-> FALSE, call |-> JNull]
  ELSE LET at == FindMarker(response, Markers[n])
           block == response[SetMin(at)]
       IN IF at = {} THEN ExtractFrom(response, n + 1)
          ELSE IF block.marker # Markers[n] \/ block.body.shape = "code"
          THEN ExtractFrom(response, n + 1)
          ELSE IF block.body.shape = "broken" THEN [found |-> FALSE, call |-> JNull]
          ELSE IF IsDict(block.body.obj) /\ Has(block.body.obj.f, Key_tool)
          THEN [found |-> TRUE, call |-> block.body.obj]
          ELSE ExtractFrom(response, n + 1)

extract_tool_call(response) == ExtractFrom(response, 1)

\* A block that one of the three substitutions of _clean_response removes:
\* a tool block reading { ... }, or a json or bare block reading { "tool" ... },
\* with no backquote inside.
Removed(segment) ==
  /\ segment.seg = "fence"
  /\ segment.marker \in {"tool", "json", ""}
  /\ segment.body.shape \in {"object", "broken"}
  /\ segment.body.shape = "broken" => segment.body.closes
  /\ segment.marker # "tool" => segment.body.tool_first

\* AgentLoop._clean_response (segments carry no surrounding whitespace, which
\* the last two steps of the code normalize).
clean_response(response) == SelectSeq(response, LAMBDA segment : ~Removed(segment))

(***************************************************************************)
(* AgentPlanner (agent/planner.py).  A plan is the AgentPlan built from    *)
(* the JSON object of the response, JNull for None.  The objects of the    *)
(* model hold no array, so a plan has no steps.                            *)
(***************************************************************************)
Key_goal == <<"g","o","a","l">>

Key_requires_confirmation ==
  <<"r","e","q","u","i","r","e","s","_","c","o","n","f","i","r","m","a","t","i","o","n">>

AgentPlan(goal, steps, requires_confirmation) ==
  [goal |-> goal, steps |-> steps, requires_confirmation |-> requires_confirmation]

\* AgentPlanner._parse_json_plan on the body of a block: [raised, plan].
\* json.loads raises for a text that is no JSON.  The objects given as plans
\* hold a str for goal and a bool for requires_confirmation, which AgentPlan
\* accepts as they are.
parse_json_plan(body) ==
  IF body.shape # "object" \/ ~IsDict(body.obj) THEN [raised |-> TRUE, plan |-> JNull]
  ELSE [raised |-> FALSE,
        plan |-> AgentPlan(GetOr(body.obj.f, Key_goal, JStr(<<>>)), <<>>,
                           GetOr(body.obj.f, Key_requires_confirmation, JBool(FALSE)))]

\* The blocks whose text holds a brace, and whether the text of the response
\* holds the word goal (the prose of the model holds neither).
Braced(response) ==
  {i \in 1..Len(response) :
     response[i].seg = "fence" /\ response[i].body.shape \in {"object", "broken"}}

HoldsGoal(response) ==
  \E i \in Braced(response) :
    /\ response[i].body.shape = "object"
    /\ IsDict(response[i].body.obj)
    /\ Has(response[i].body.obj.f, Key_goal)

\* AgentPlanner.parse_plan: the first plan block, else the first json block,
\* else the text from the first brace to the brace that closes it; any
\* exception gives None.
parse_plan(llm_response) ==
  IF FindMarker(llm_response, "plan") # {}
  THEN parse_json_plan(llm_response[SetMin(FindMarker(llm_response, "plan"))].body).plan
  ELSE IF FindMarker(llm_response, "json") # {}
  THEN parse_json_plan(llm_response[SetMin(FindMarker(llm_response, "json"))].body).plan
  ELSE IF Braced(llm_response) # {} /\ HoldsGoal(llm_response)
  THEN parse_json_plan(llm_response[SetMin(Braced(llm_response))].body).plan
  ELSE JNull

(***************************************************************************)
(* AgentLoop (agent/agent_loop.py) and its serving layer (main.py)         *)
(***************************************************************************)
VARIABLES
  mode,                  \* self.mode
  workspace_dir,         \* self.workspace_dir (and middleware.workspace)
  conversation_history,  \* self.conversation_history
  tracked_files,         \* self.file_tracker.tracked_files
  tracker_enabled,       \* self.file_tracker._enabled
  disk,                  \* the filesystem
  pc,                    \* where process() stands: idle, awaiting_llm, executing_tool
  branch,                \* the branch process() took: chat or agent
  iteration,             \* process(): iteration
  response,              \* process(): response
  tool_results,          \* process(): tool_results
  normalized_call,       \* process(): normalized_call and warnings
  llm_messages,          \* _call_groq / _call_ollama: messages of the last call
  result,                \* what the last process() call gave its caller
  outcome,               \* how the last turn ended
  llm_calls,             \* LLM calls issued in the current turn
  dispatches,            \* _execute_tool calls made in the current turn
  threw,                 \* per dispatch of the turn: an exception was caught
  all_tool_calls,        \* every response of the turn held an extractable call
  llm_last,              \* the last response of the LLM
  picks,                 \* free choices the LLM has made
  turns,                 \* process() calls started
  tool_call_in,          \* normalize_tool_call on its own: the input,
  workspace_in,          \*   whether the middleware has a workspace,
  normalize_out,         \*   and what the call gave
  fn_in,                 \* a function applied on its own: its arguments,
  fn_out,                \*   and what it gave
  tracker_log,           \* FileChangeTracker on its own: the calls made on it
  current_plan,          \* self.current_plan
  temp_history,          \* generate_plan(): temp_history
  plan_response,         \* generate_plan(): response
  requests,              \* the server: for each POST /chat, where its process() call stands
  loop_thread            \* the server: the request whose code holds the event loop's thread, or 0

vars == <<mode, workspace_dir, conversation_history, tracked_files, tracker_enabled, disk,
          pc, branch, iteration, response, tool_results, normalized_call, llm_messages,
          result, outcome, llm_calls, dispatches, threw, all_tool_calls, llm_last, picks,
          turns, tool_call_in, workspace_in, normalize_out, fn_in, fn_out, tracker_log,
          current_plan, temp_history, plan_response, requests, loop_thread>>

\* for iteration in range(max_iterations)
max_iterations == 15

\* os.getenv("LLM_PROVIDER", "groq")
provider == "groq"

\* Bounds of the model: process() calls per run, and LLM calls whose response
\* is chosen freely (afterwards the LLM repeats its last response).
MaxTurns == 1

MaxPicks == 2

Turn(role, content) == [role |-> role, content |-> content]

\* ToolResult(tool=..., args=..., result=..., status=..., warnings=...)
ToolResult(tool, args, text, status, warnings) ==
  [tool |-> tool, args |-> args, result |-> text, status |-> status, warnings |-> warnings]

\* a status that takes every text reporting a failure for an error
StatusOfFailure(result_text) ==
  IF result_text # <<>> /\ result_text[1] \in {ErrorMarker, Lit("Tool execution error: "),
                                                 Lit("Error reading file: "), Lit("Error writing file: "),
                                                 Lit("Error listing directory: ")}
  THEN "error" ELSE "success"

\* ToolCallStatus.ERROR if result_text.startswith("Error:") else SUCCESS
StatusOf(result_text) ==
  IF result_text # <<>> /\ result_text[1] = ErrorMarker THEN "error" ELSE "success"

\* A response that reports the number of tool results as its iterations.
build_response_counts_results(text, results, iterations, m) ==
  [status |-> "returned",
   response |-> text,
   tool_calls |-> [i \in 1..Len(results) |->
                     [tool |-> results[i].tool, args |-> results[i].args,
                      result |-> results[i].result]],
   iterations |-> Len(results),
   mode |-> m]

\* AgentLoop._build_response
build_response(text, results, iterations, m) ==
  [status |-> "returned",
   response |-> text,
   tool_calls |-> [i \in 1..Len(results) |->
                     [tool |-> results[i].tool, args |-> results[i].args,
                      result |-> results[i].result]],
   iterations |-> iterations,
   mode |-> m]

\* What the caller of process() holds when it raised: main.py turns the
\* exception into an HTTP 500, no ChatResponse.
Raised == [status |-> "raised", response |-> <<>>, tool_calls |-> <<>>, iterations |-> 0, mode |-> ""]

NoResult == [status |-> "none", response |-> <<>>, tool_calls |-> <<>>, iterations |-> 0, mode |-> ""]

\* f"Failed to get response from {self.provider} - no response received"
FailureText == <<Lit("Failed to get response from "), Lit(provider), Lit(" - no response received")>>

\* f"I've completed {max_iterations} tool operations. Here's what I found:\n\n{clean_response}"
CappedText(clean) ==
  <<Lit("I've completed "), Num(max_iterations), Lit(" tool operations. Here's what I found:\n\n")>>
  \o clean

\* The system prompt of _call_groq / _call_ollama.
SystemPrompt(m, ws, d) ==
  IF m = "chat" THEN <<Lit("chat_system_prompt")>>
  ELSE <<Lit("agent prompt for workspace "), Chr(PathText(get_effective_workspace(ws, d)))>>

\* messages = [system] + self.conversation_history
Messages(m, ws, d, history) == <<Turn("system", SystemPrompt(m, ws, d))>> \o history

\* The turns of a dispatched tool call with the response cleaned of its fencing.
ToolTurnsCleaned(raw_response, result_text) ==
  <<Turn("assistant", clean_response(raw_response)),
    Turn("user", <<Lit("Tool result:\n")>> \o result_text)>>

\* The turns a dispatched tool call adds to the history.
ToolTurns(raw_response, result_text) ==
  <<Turn("assistant", raw_response), Turn("user", <<Lit("Tool result:\n")>> \o result_text)>>

\* No turn for a response without tool call.
FinalTurnsDropped(raw_response) == <<>>

\* The turn a response without tool call adds to the history.
FinalTurns(raw_response) == <<Turn("assistant", raw_response)>>

\* Chat mode returning the response cleaned of its fencing.
ChatTextCleaned(raw_response) == clean_response(raw_response)

\* What chat mode returns for a response.
ChatText(raw_response) == raw_response

\* A provider failure returning no tool result.
FailureResultsDropped(results) == <<>>

\* What a provider failure returns: the tool results so far.
FailureResults(results) == results

(***************************************************************************)
(* The environment: the disk when the server starts, the prompts of the    *)
(* client and the responses the LLM may give.  Requests are served one at  *)
(* a time: the client awaits each reply before it sends the next request.  *)
(***************************************************************************)
Name_w == <<"w">>

Name_a_txt == <<"a",".","t","x","t">>

Name_b_txt == <<"b",".","t","x","t">>

\* /srv (the working directory), /w and the file /w/a.txt holding "x".
InitialDisk ==
  [p \in {<<>>, Cwd, <<Name_w>>, <<Name_w, Name_a_txt>>} |->
     IF p = <<Name_w, Name_a_txt>> THEN File(<<"x">>) ELSE Dir]

Prompts == { <<Lit("look at the files")>> }

\* The paths set_workspace is called with.
WorkspacePaths == { <<"/","w">>, <<"/","n","o","p","e">> }

\* {"tool": tool, "args": args}
Call(tool, args) == JObj(<<Item(Key_tool, tool), Item(Key_args, args)>>)

\* A response that announces a call in a tool block.
Calling(obj) == <<Prose("Let me do that."), Fence("tool", Object(obj, TRUE))>>

R_empty == <<>>

R_prose == <<Prose("All done.")>>

\* prose and a tool block whose JSON does not parse
R_broken == <<Prose("Here is the call."), Fence("tool", Broken(TRUE, TRUE))>>

\* prose and a json block holding an object without 'tool' key
R_no_tool ==
  <<Prose("The file is this one."), Fence("json", Object(JObj(<<Item(Key_name, JStr(Name_a_txt))>>), FALSE))>>

\* prose and a block of Python code
R_code == <<Prose("Try this."), Fence("python", Code)>>

R_list == Calling(Call(JStr(Name_list_directory), JObj(<<Item(Key_path, JStr(<<".">>))>>)))

\* an alias of list_directory with an alias of its parameter, in a json block
R_alias ==
  <<Fence("json", Object(Call(JStr(<<"l","s">>), JObj(<<Item(<<"d","i","r">>, JStr(<<".">>))>>)), TRUE))>>

R_read == Calling(Call(JStr(Name_read_file), JObj(<<Item(Key_path, JStr(Name_a_txt))>>)))

R_write ==
  Calling(Call(JStr(Name_write_file),
               JObj(<<Item(Key_path, JStr(Name_a_txt)), Item(Key_content, JStr(<<"h","i">>))>>)))

\* write_file without content
R_write_no_content == Calling(Call(JStr(Name_write_file), JObj(<<Item(Key_path, JStr(Name_b_txt))>>)))

\* write_file with a number for content
R_write_number ==
  Calling(Call(JStr(Name_write_file),
               JObj(<<Item(Key_path, JStr(Name_b_txt)), Item(Key_content, JNum(5))>>)))

\* run_command without command
R_run == Calling(Call(JStr(Name_run_command), JObj(<<>>)))

\* a tool that is neither built in nor a script of the tools directory
R_unknown == Calling(Call(JStr(<<"x","y","z">>), JObj(<<>>)))

\* a script of the tools directory that raises
R_deploy == Calling(Call(JStr(<<"d","e","p","l","o","y">>), JObj(<<>>)))

\* {"tool": null}
R_null == Calling(JObj(<<Item(Key_tool, JNull)>>))

R_list_tools == Calling(Call(JStr(Name_list_tools), JObj(<<>>)))

R_read_tool ==
  Calling(Call(JStr(Name_read_tool), JObj(<<Item(Key_name, JStr(<<"p","i","n","g">>))>>)))

LLMResponses ==
  { R_empty, R_prose, R_broken, R_code, R_list, R_alias, R_read, R_write, R_write_no_content,
    R_write_number, R_run, R_unknown, R_deploy, R_null, R_list_tools, R_read_tool, R_no_tool }

\* The LLM answers as it likes MaxPicks times and then repeats itself.
LLMGives(r) == IF picks < MaxPicks THEN r \in LLMResponses ELSE r = llm_last

NoCall == [call |-> <<>>, warnings |-> <<>>]

NotNormalized == [done |-> FALSE, out |-> [raised |-> FALSE, call |-> <<>>, warnings |-> <<>>]]

\* The most POST /chat requests the server receives.
MaxRequests == 2

Requests == 1..MaxRequests

\* A request not yet received: the locals of its process() call.
NoRequest ==
  [pc |-> "none", branch |-> "none", iteration |-> 0, response |-> <<>>, tool_results |-> <<>>,
   normalized_call |-> NoCall, llm_messages |-> <<>>, result |-> NoResult, appended |-> <<>>,
   answers |-> 0]

NoRequests == [r \in Requests |-> NoRequest]

\* No function applied on its own yet.
NoInput == [fn |-> "none"]

NotApplied == [done |-> FALSE]

\* The state the serving layer starts in: agent = AgentLoop().
Init ==
  /\ mode = "agent"
  /\ workspace_dir = NoWorkspace
  /\ conversation_history = <<>>
  /\ tracked_files = <<>>
  /\ tracker_enabled = TRUE
  /\ disk = InitialDisk
  /\ pc = "idle"
  /\ branch = "none"
  /\ iteration = 0
  /\ response = <<>>
  /\ tool_results = <<>>
  /\ normalized_call = NoCall
  /\ llm_messages = <<>>
  /\ result = NoResult
  /\ outcome = "none"
  /\ llm_calls = 0
  /\ dispatches = 0
  /\ threw = <<>>
  /\ all_tool_calls = TRUE
  /\ llm_last = <<>>
  /\ picks = 0
  /\ turns = 0
  /\ tool_call_in = JNull
  /\ workspace_in = FALSE
  /\ normalize_out = NotNormalized
  /\ fn_in = NoInput
  /\ fn_out = NotApplied
  /\ tracker_log = <<>>
  /\ current_plan = JNull
  /\ temp_history = <<>>
  /\ plan_response = <<>>
  /\ requests = NoRequests
  /\ loop_thread = 0

\* The variables of a process() call, and those it never writes.
TurnVars ==
  <<pc, branch, iteration, response, tool_results, normalized_call, llm_messages, result,
    outcome, llm_calls, dispatches, threw, all_tool_calls, llm_last, picks, turns>>

NormalizeVars == <<tool_call_in, workspace_in, normalize_out>>

\* The variables of the other functions applied on their own.
OwnVars == <<fn_in, fn_out, tracker_log, current_plan, temp_history, plan_response, requests,
            loop_thread>>

\* The variables of generate_plan.
PlanVars == <<current_plan, temp_history, plan_response>>

\* The variables of the server with its requests.
ServerVars == <<requests, loop_thread>>

\* AgentLoop.set_mode (main.py: POST /mode)
SetMode(m) ==
  /\ pc = "idle"
  /\ mode' = IF m \in {"chat", "agent"} THEN m ELSE mode
  /\ UNCHANGED <<workspace_dir, conversation_history, tracked_files, tracker_enabled, disk>>
  /\ UNCHANGED TurnVars
  /\ UNCHANGED NormalizeVars
  /\ UNCHANGED OwnVars

\* AgentLoop.set_workspace
SetWorkspace(path) ==
  LET workspace_path == IF Head(path) = "/" THEN Resolve(Components(path), <<>>)
                        ELSE Resolve(Cwd \o Components(path), <<>>)
  IN /\ pc = "idle"
     /\ workspace_dir' = IF IsDir(disk, workspace_path) THEN Workspace(workspace_path)
                         ELSE workspace_dir
     /\ UNCHANGED <<mode, conversation_history, tracked_files, tracker_enabled, disk>>
     /\ UNCHANGED TurnVars
     /\ UNCHANGED NormalizeVars
     /\ UNCHANGED OwnVars

\* AgentLoop.clear_history
\* clear_history without the call of file_tracker.clear()
clear_history_keeps_tracker ==
  /\ pc = "idle"
  /\ conversation_history' = <<>>
  /\ current_plan' = JNull
  /\ UNCHANGED <<mode, workspace_dir, tracked_files, tracker_enabled, disk>>
  /\ UNCHANGED TurnVars
  /\ UNCHANGED NormalizeVars
  /\ UNCHANGED <<fn_in, fn_out, tracker_log, temp_history, plan_response>>
  /\ UNCHANGED ServerVars

ClearHistory ==
  /\ pc = "idle"
  /\ conversation_history' = <<>>
  /\ current_plan' = JNull
  /\ tracked_files' = <<>>
  /\ UNCHANGED <<mode, workspace_dir, tracker_enabled, disk>>
  /\ UNCHANGED TurnVars
  /\ UNCHANGED NormalizeVars
  /\ UNCHANGED <<fn_in, fn_out, tracker_log, temp_history, plan_response>>
  /\ UNCHANGED ServerVars

\* process(), up to its first await: the user turn is appended and the first
\* LLM call is issued.
Process(user_prompt) ==
  /\ pc = "idle"
  /\ turns < MaxTurns
  /\ turns' = turns + 1
  /\ conversation_history' = Append(conversation_history, Turn("user", user_prompt))
  /\ tool_results' = <<>>
  /\ branch' = IF mode = "chat" THEN "chat" ELSE "agent"
  /\ iteration' = 0
  /\ response' = <<>>
  /\ llm_messages' = Messages(mode, workspace_dir, disk, conversation_history')
  /\ llm_calls' = 1
  /\ dispatches' = 0
  /\ threw' = <<>>
  /\ all_tool_calls' = TRUE
  /\ result' = NoResult
  /\ outcome' = "none"
  /\ pc' = "awaiting_llm"
  /\ UNCHANGED <<mode, workspace_dir, tracked_files, tracker_enabled, disk, normalized_call,
                 llm_last, picks>>
  /\ UNCHANGED NormalizeVars
  /\ UNCHANGED OwnVars

\* What every return of the LLM call does to the model of the LLM.
Answered(r) ==
  /\ LLMGives(r)
  /\ llm_last' = r
  /\ picks' = IF picks < MaxPicks THEN picks + 1 ELSE picks
  /\ response' = r

\* The LLM call returns no response: the turn ends with the failure message.
ProviderFailure ==
  /\ pc = "awaiting_llm"
  /\ Answered(R_empty)
  /\ result' = build_response(FailureText, FailureResults(tool_results),
                              IF branch = "chat" THEN 0 ELSE iteration, mode)
  /\ outcome' = "failure"
  /\ all_tool_calls' = FALSE
  /\ pc' = "idle"
  /\ UNCHANGED <<mode, workspace_dir, conversation_history, tracked_files, tracker_enabled, disk,
                 branch, iteration, tool_results, normalized_call, llm_messages, llm_calls,
                 dispatches, threw, turns>>
  /\ UNCHANGED NormalizeVars
  /\ UNCHANGED OwnVars

\* Chat mode: the response is appended and returned.
ChatReply(r) ==
  /\ pc = "awaiting_llm"
  /\ branch = "chat"
  /\ r # <<>>
  /\ Answered(r)
  /\ conversation_history' = Append(conversation_history, Turn("assistant", r))
  /\ result' = build_response(ChatText(r), tool_results, 0, mode)
  /\ outcome' = "chat"
  /\ all_tool_calls' = (all_tool_calls /\ extract_tool_call(r).found)
  /\ pc' = "idle"
  /\ UNCHANGED <<mode, workspace_dir, tracked_files, tracker_enabled, disk, branch, iteration,
                 tool_results, normalized_call, llm_messages, llm_calls, dispatches, threw, turns>>
  /\ UNCHANGED NormalizeVars
  /\ UNCHANGED OwnVars

\* Agent mode, no tool call found: the final response of the turn.
FinalReply(r) ==
  /\ pc = "awaiting_llm"
  /\ branch = "agent"
  /\ r # <<>>
  /\ ~extract_tool_call(r).found
  /\ Answered(r)
  /\ conversation_history' = conversation_history \o FinalTurns(r)
  /\ result' = build_response(clean_response(r), tool_results, iteration + 1, mode)
  /\ outcome' = "final"
  /\ all_tool_calls' = FALSE
  /\ pc' = "idle"
  /\ UNCHANGED <<mode, workspace_dir, tracked_files, tracker_enabled, disk, branch, iteration,
                 tool_results, normalized_call, llm_messages, llm_calls, dispatches, threw, turns>>
  /\ UNCHANGED NormalizeVars
  /\ UNCHANGED OwnVars

\* Agent mode, a tool call found and normalized: the tool is dispatched.
ToolCall(r) ==
  LET tool_call == extract_tool_call(r).call
      normalized == normalize_tool_call(tool_call, workspace_dir.set)
  IN /\ pc = "awaiting_llm"
     /\ branch = "agent"
     /\ r # <<>>
     /\ extract_tool_call(r).found
     /\ ~normalized.raised
     /\ Answered(r)
     /\ normalized_call' = [call |-> normalized.call, warnings |-> normalized.warnings]
     /\ dispatches' = dispatches + 1
     /\ pc' = "executing_tool"
     /\ UNCHANGED <<mode, workspace_dir, conversation_history, tracked_files, tracker_enabled,
                    disk, branch, iteration, tool_results, llm_messages, result, outcome,
                    llm_calls, threw, all_tool_calls, turns>>
     /\ UNCHANGED NormalizeVars
     /\ UNCHANGED OwnVars

\* Agent mode, a tool call found on which normalize_tool_call raises: nothing
\* in process() catches the exception, and the caller gets it.
NormalizeRaises(r) ==
  /\ pc = "awaiting_llm"
  /\ branch = "agent"
  /\ r # <<>>
  /\ extract_tool_call(r).found
  /\ normalize_tool_call(extract_tool_call(r).call, workspace_dir.set).raised
  /\ Answered(r)
  /\ result' = Raised
  /\ outcome' = "raised"
  /\ pc' = "idle"
  /\ UNCHANGED <<mode, workspace_dir, conversation_history, tracked_files, tracker_enabled, disk,
                 branch, iteration, tool_results, normalized_call, llm_messages, llm_calls,
                 dispatches, threw, all_tool_calls, turns>>
  /\ UNCHANGED NormalizeVars
  /\ UNCHANGED OwnVars

\* _execute_tool returns: the result is recorded, the two turns are appended,
\* and the loop issues the next LLM call or ends at the iteration cap.
ToolReturn ==
  LET executed == execute_tool(normalized_call.call,
                               [disk |-> disk, tracked_files |-> tracked_files,
                                tracker_enabled |-> tracker_enabled,
                                workspace_dir |-> workspace_dir])
      result_text == executed.text
      tool_name == GetOr(normalized_call.call, Key_tool, JStr(<<"u","n","k","n","o","w","n">>)).s
  IN /\ pc = "executing_tool"
     /\ disk' = executed.disk
     /\ tracked_files' = executed.tracked_files
     /\ threw' = Append(threw, executed.threw)
     /\ tool_results' = Append(tool_results,
                               ToolResult(tool_name, executed.args, result_text,
                                          StatusOf(result_text), normalized_call.warnings))
     /\ conversation_history' = conversation_history \o ToolTurns(response, result_text)
     /\ iteration' = iteration + 1
     /\ IF iteration + 1 < max_iterations
        THEN /\ llm_messages' = Messages(mode, workspace_dir, disk', conversation_history')
             /\ llm_calls' = llm_calls + 1
             /\ pc' = "awaiting_llm"
             /\ UNCHANGED <<result, outcome>>
        ELSE /\ result' = build_response(CappedText(clean_response(response)), tool_results',
                                         max_iterations, mode)
             /\ outcome' = "cap"
             /\ pc' = "idle"
             /\ UNCHANGED <<llm_messages, llm_calls>>
     /\ UNCHANGED <<mode, workspace_dir, tracker_enabled, branch, response, normalized_call,
                    dispatches, all_tool_calls, llm_last, picks, turns>>
     /\ UNCHANGED NormalizeVars
     /\ UNCHANGED OwnVars

Next ==
  \/ \E m \in {"chat", "agent", "plan"} : SetMode(m)
  \/ \E path \in WorkspacePaths : SetWorkspace(path)
  \/ ClearHistory
  \/ \E user_prompt \in Prompts : Process(user_prompt)
  \/ ProviderFailure
  \/ \E r \in LLMResponses : ChatReply(r)
  \/ \E r \in LLMResponses : FinalReply(r)
  \/ \E r \in LLMResponses : ToolCall(r)
  \/ \E r \in LLMResponses : NormalizeRaises(r)
  \/ ToolReturn

Spec == Init /\ [][Next]_vars

(***************************************************************************)
(* ToolMiddleware.normalize_tool_call on its own: the function is applied  *)
(* to one input, any JSON value, with or without a workspace set.          *)
(***************************************************************************)
ToolValues ==
  { JNull, JNum(5), JBool(TRUE), JObj(<<>>), JStr(<<>>), JStr(<<"l","s">>),
    JStr(Name_write_file), JStr(<<" ","R","E","A","D","_","F","I","L","E"," ">>),
    JStr(<<"x","y","z">>), JStr(<<"r","e","a","d","f","i","l","e">>) }

ArgsValues ==
  { JNull, JNum(5), JStr(Name_a_txt), JObj(<<>>),
    JObj(<<Item(Key_path, JStr(Name_a_txt))>>),
    JObj(<<Item(<<"f","i","l","e">>, JStr(<<".",".","/","a">>)), Item(Key_content, JNull)>>),
    JObj(<<Item(<<"p","a","t","h","s">>, JNum(5))>>) }

NormalizeInputs ==
  {JNull, JNum(5), JBool(FALSE), JStr(Name_read_file), JObj(<<>>)}
  \cup {JObj(<<Item(Key_tool, tool)>>) : tool \in ToolValues}
  \cup {JObj(<<Item(Key_args, args)>>) : args \in ArgsValues}
  \cup {Call(tool, args) : tool \in ToolValues, args \in ArgsValues}

InitNormalize ==
  /\ mode = "agent"
  /\ workspace_dir = NoWorkspace
  /\ conversation_history = <<>>
  /\ tracked_files = <<>>
  /\ tracker_enabled = TRUE
  /\ disk = InitialDisk
  /\ pc = "idle"
  /\ branch = "none"
  /\ iteration = 0
  /\ response = <<>>
  /\ tool_results = <<>>
  /\ normalized_call = NoCall
  /\ llm_messages = <<>>
  /\ result = NoResult
  /\ outcome = "none"
  /\ llm_calls = 0
  /\ dispatches = 0
  /\ threw = <<>>
  /\ all_tool_calls = TRUE
  /\ llm_last = <<>>
  /\ picks = 0
  /\ turns = 0
  /\ tool_call_in \in NormalizeInputs
  /\ workspace_in \in BOOLEAN
  /\ normalize_out = NotNormalized
  /\ fn_in = NoInput
  /\ fn_out = NotApplied
  /\ tracker_log = <<>>
  /\ current_plan = JNull
  /\ temp_history = <<>>
  /\ plan_response = <<>>
  /\ requests = NoRequests
  /\ loop_thread = 0

Normalize ==
  /\ ~normalize_out.done
  /\ normalize_out' = [done |-> TRUE, out |-> normalize_tool_call(tool_call_in, workspace_in)]
  /\ UNCHANGED <<tool_call_in, workspace_in>>
  /\ UNCHANGED <<mode, workspace_dir, conversation_history, tracked_files, tracker_enabled, disk>>
  /\ UNCHANGED TurnVars
  /\ UNCHANGED OwnVars

NextNormalize == Normalize

SpecNormalize == InitNormalize /\ [][NextNormalize]_vars

(***************************************************************************)
(* The functions of the middleware and the path resolver applied on their  *)
(* own: fn_in holds the function and its arguments, fn_out what it gave.   *)
(***************************************************************************)
\* str.upper()
upper(s) ==
  [i \in 1..Len(s) |->
     IF \E k \in 1..Len(LowerCase) : LowerCase[k] = s[i]
     THEN UpperCase[CHOOSE k \in 1..Len(LowerCase) : LowerCase[k] = s[i]]
     ELSE s[i]]

\* str.capitalize() of a lower-case name
capitalize(s) == IF s = <<>> THEN s ELSE upper(<<Head(s)>>) \o Tail(s)

\* Every canonical name and alias of the registry in lower case, upper case
\* and capitalized, and two names the registry does not hold.
ToolNameInputs ==
  UNION {{all_tool_names[i], upper(all_tool_names[i]), capitalize(all_tool_names[i])} :
           i \in 1..Len(all_tool_names)}
  \cup {<<"x","y","z">>, <<"r","e","a","d","f","i","l","e">>}

\* The names a parameter answers to: [param.name] + param.aliases.
ParamNames(param) == <<param.name>> \o param.aliases

\* The raw_args dict that gives parameter n of the schema the key
\* ParamNames[choice[n]] (no key when choice[n] = 0), in parameter order;
\* the value under a key is the key itself, as a str.
\* The most names any of the parameters has.
MostNames(parameters) ==
  SetMax({Len(ParamNames(parameters[n])) : n \in 1..Len(parameters)} \cup {0})

RECURSIVE ChosenArgs(_, _, _)
ChosenArgs(parameters, choice, n) ==
  IF n > Len(parameters) THEN <<>>
  ELSE (IF choice[n] = 0 THEN <<>>
        ELSE <<Item(ParamNames(parameters[n])[choice[n]],
                    JStr(ParamNames(parameters[n])[choice[n]]))>>)
       \o ChosenArgs(parameters, choice, n + 1)

\* reversed(list)
Reversed(seq) == [i \in 1..Len(seq) |-> seq[Len(seq) + 1 - i]]

\* The dict with null for the value of its first key.
FirstNull(args) == IF args = <<>> THEN args ELSE <<Item(args[1].k, JNull)>> \o Tail(args)

\* Keys no schema declares, close to declared names.
OddKeys == { <<"p","a","h","t">>, <<"d","i","r","s">>, <<"c","o","n","t","e","n","t","s","s">> }

\* For a schema: the dicts that supply one parameter under two of its names,
\* the name that comes later in ParamNames first, with and without a null
\* value under the name that comes earlier.
TwoNamesOf(names) ==
  UNION {{<<Item(names[j], JStr(names[j])), Item(names[i], IF null THEN JNull ELSE JStr(names[i]))>> :
            i \in 1..(j - 1), null \in BOOLEAN} :
         j \in 1..Len(names)}

TwoNames(schema) ==
  UNION {TwoNamesOf(ParamNames(schema.parameters[n])) : n \in 1..Len(schema.parameters)}

\* For a schema: every dict that supplies each parameter under at most one of
\* its names, in parameter order and reversed, with and without a null
\* first value, and preceded or not by an undeclared key; and the dicts that
\* supply a parameter twice.
ArgsInputs(schema) ==
  LET declared == {ChosenArgs(schema.parameters, choice, 1) :
                     choice \in {c \in [1..Len(schema.parameters) -> 0..MostNames(schema.parameters)] :
                                   \A n \in 1..Len(schema.parameters) :
                                     c[n] <= Len(ParamNames(schema.parameters[n]))}}
      ordered == declared \cup {Reversed(args) : args \in declared}
  IN ordered
     \cup {FirstNull(args) : args \in ordered}
     \cup {<<Item(odd, JStr(odd))>> \o args : odd \in OddKeys, args \in declared}
     \cup TwoNames(schema)

\* The longest path string given to _sanitize_path and _resolve_path.
MaxPathLen == 5

\* The characters of the path strings: the separators, the dot, a letter and
\* the null byte.
PathChars == {"/", "\\", ".", "a", NUL}

\* '../../etc/passwd'
Path_passwd == <<".",".","/",".",".","/","e","t","c","/","p","a","s","s","w","d">>

PathInputs == UNION {[1..n -> PathChars] : n \in 0..MaxPathLen} \cup {Path_passwd}

\* The characters of the paths given to _resolve_path: the separator, the
\* dot, the letters of the names on the disk and the null byte.
ResolveChars == {"/", ".", "a", "w", NUL}

\* The workspaces _resolve_path runs with: none, /w, and a directory that is
\* gone from the disk since set_workspace.
WorkspaceInputs == {NoWorkspace, Workspace(<<Name_w>>), Workspace(<<Name_a_txt>>)}

\* The commands run_command is given: text, with and without a null byte,
\* and values that are no text.
CommandInputs ==
  { JStr(Cmd_sleep), JStr(Cmd_false), JStr(<<"l","s">>), JStr(<<>>), JStr(<<"l", NUL>>),
    JNum(5), JNull, JBool(TRUE) }

\* The most fenced blocks of a response given to _extract_tool_call.
MaxFences == 2

\* The blocks of such a response: a tool, json or bare block holding one of
\* two well-formed invocations, an object without 'tool' key or text that
\* json.loads rejects, and a block of code.
FenceInputs ==
  {Fence(marker, body) :
     marker \in {"tool", "json", ""},
     body \in {Object(Call(JStr(Name_list_directory), JObj(<<>>)), TRUE),
               Object(Call(JStr(Name_read_file), JObj(<<>>)), TRUE),
               Object(JObj(<<Item(Key_name, JStr(Name_a_txt))>>), FALSE),
               Broken(TRUE, TRUE)}}
  \cup {Fence("python", Code)}

ExtractInputs == UNION {[1..n -> FenceInputs] : n \in 0..MaxFences}

\* '/w/a.txt'
Path_w_a_txt == <<"/">> \o Name_w \o <<"/">> \o Name_a_txt

\* What _tool_write_file is given: a path (relative, absolute, a directory,
\* under a file, empty, no str), a content (text, empty, no str, null), a
\* workspace or none, and a tracker that has seen nothing, has read a.txt,
\* has read a missing b.txt, or has written a.txt.
WriteInputs ==
  {[fn |-> "tool_write_file", path |-> path, content |-> content, workspace_dir |-> workspace,
    tracked_files |-> tracked] :
     path \in {JStr(Name_a_txt), JStr(Name_b_txt), JStr(Path_w_a_txt), JStr(<<"/">> \o Name_w),
               JStr(Path_w_a_txt \o <<"/", "c">>), JStr(<<>>), JNum(5)},
     content \in {JStr(<<"x">>), JStr(<<"h","i">>), JStr(<<>>), JNum(5), JNull},
     workspace \in {NoWorkspace, Workspace(<<Name_w>>)},
     tracked \in {<<>>,
                  record_read(<<>>, TRUE, Name_a_txt, <<"x">>, TRUE),
                  record_read(<<>>, TRUE, Name_b_txt, <<>>, FALSE),
                  record_write(<<>>, TRUE, Name_a_txt, <<"h","i">>)}}

FunctionInputs ==
  {[fn |-> "resolve_tool_name", raw_name |-> raw_name] : raw_name \in ToolNameInputs}
  \cup {[fn |-> "resolve_path", path |-> path, workspace_dir |-> workspace] :
          path \in UNION {[1..n -> ResolveChars] : n \in 0..MaxPathLen},
          workspace \in WorkspaceInputs}
  \cup {[fn |-> "extract_tool_call", response |-> llm_response] : llm_response \in ExtractInputs}
  \cup WriteInputs
  \cup {[fn |-> "run_command", command |-> command, workspace_dir |-> workspace] :
          command \in CommandInputs, workspace \in WorkspaceInputs}
  \cup {[fn |-> "sanitize_path", path |-> path, workspace_set |-> workspace_set] :
          path \in PathInputs, workspace_set \in BOOLEAN}
  \cup UNION {{[fn |-> "normalize_arguments", schema |-> TOOL_SCHEMAS[n].name, raw_args |-> raw_args] :
                 raw_args \in ArgsInputs(TOOL_SCHEMAS[n])} : n \in 1..Len(TOOL_SCHEMAS)}

InitFunctions ==
  /\ mode = "agent"
  /\ workspace_dir = NoWorkspace
  /\ conversation_history = <<>>
  /\ tracked_files = <<>>
  /\ tracker_enabled = TRUE
  /\ disk = InitialDisk
  /\ pc = "idle"
  /\ branch = "none"
  /\ iteration = 0
  /\ response = <<>>
  /\ tool_results = <<>>
  /\ normalized_call = NoCall
  /\ llm_messages = <<>>
  /\ result = NoResult
  /\ outcome = "none"
  /\ llm_calls = 0
  /\ dispatches = 0
  /\ threw = <<>>
  /\ all_tool_calls = TRUE
  /\ llm_last = <<>>
  /\ picks = 0
  /\ turns = 0
  /\ tool_call_in = JNull
  /\ workspace_in = FALSE
  /\ normalize_out = NotNormalized
  /\ fn_in \in FunctionInputs
  /\ fn_out = NotApplied
  /\ tracker_log = <<>>
  /\ current_plan = JNull
  /\ temp_history = <<>>
  /\ plan_response = <<>>
  /\ requests = NoRequests
  /\ loop_thread = 0

\* The function fn returns value: nothing but fn_out changes.
Applied(fn, value) ==
  /\ fn_in.fn = fn
  /\ ~fn_out.done
  /\ fn_out' = [done |-> TRUE, value |-> value]
  /\ UNCHANGED <<mode, workspace_dir, conversation_history, tracked_files, tracker_enabled, disk>>
  /\ UNCHANGED TurnVars
  /\ UNCHANGED NormalizeVars
  /\ UNCHANGED <<fn_in, tracker_log>>
  /\ UNCHANGED PlanVars
  /\ UNCHANGED ServerVars

\* ToolMiddleware._resolve_tool_name as get_tool_help calls it: on the name
\* as given.
ResolveToolName == Applied("resolve_tool_name", resolve_tool_name(fn_in.raw_name))

\* ToolMiddleware._normalize_arguments
NormalizeArguments ==
  Applied("normalize_arguments", normalize_arguments(fn_in.raw_args, SchemaOf(fn_in.schema)))

\* ToolMiddleware._sanitize_path
SanitizePath == Applied("sanitize_path", sanitize_path(fn_in.path, fn_in.workspace_set))

\* AgentLoop._resolve_path
ResolvePath ==
  Applied("resolve_path", resolve_path(JStr(fn_in.path), fn_in.workspace_dir, disk))

\* platform_utils.run_command
RunCommand == Applied("run_command", run_command(fn_in.command, fn_in.workspace_dir))

\* AgentLoop._extract_tool_call
ExtractToolCall == Applied("extract_tool_call", extract_tool_call(fn_in.response))

\* AgentLoop._tool_write_file on the disk, with the tracker as given
WriteFile ==
  Applied("tool_write_file",
          tool_write_file(fn_in.path, fn_in.content,
                          [disk |-> disk, tracked_files |-> fn_in.tracked_files,
                           tracker_enabled |-> TRUE, workspace_dir |-> fn_in.workspace_dir,
                           args |-> <<>>]))

NextFunctions ==
  \/ WriteFile
  \/ ExtractToolCall
  \/ RunCommand
  \/ ResolvePath
  \/ ResolveToolName
  \/ NormalizeArguments
  \/ SanitizePath

SpecFunctions == InitFunctions /\ [][NextFunctions]_vars


(***************************************************************************)
(* AgentLoop.generate_plan beside the turns of a session.                  *)
(***************************************************************************)
\* The context generate_plan gives the planner: the workspace and its first
\* 20 entries (in the order of iterdir, which the model takes as sorted).
PlanContext(ws, d) ==
  IF ~IsDir(d, get_effective_workspace(ws, d))
  THEN <<Lit("Workspace: "), Chr(PathText(get_effective_workspace(ws, d)))>>
  ELSE
  <<Lit("Workspace: "), Chr(PathText(get_effective_workspace(ws, d))), Lit("\nTop-level contents:")>>
  \o Flatten([i \in 1..Len(Children(d, get_effective_workspace(ws, d))) |->
       <<Lit(IF IsDir(d, Append(get_effective_workspace(ws, d),
                                Children(d, get_effective_workspace(ws, d))[i]))
             THEN "\n  dir: " ELSE "\n  file: "),
         Chr(Children(d, get_effective_workspace(ws, d))[i])>>])

\* AgentPlanner.build_planning_prompt
build_planning_prompt(user_request, context) ==
  <<Lit("PLANNING_PROMPT: User request: ")>> \o user_request
  \o <<Lit("\n\nCurrent workspace context:\n")>> \o context

R_plan ==
  <<Prose("Here is the plan."),
    Fence("plan", Object(JObj(<<Item(Key_goal, JStr(<<"l","i","s","t">>)),
                                Item(Key_requires_confirmation, JBool(TRUE))>>), FALSE))>>

\* a plan in a json block
R_plan_json == <<Fence("json", Object(JObj(<<Item(Key_goal, JStr(<<"r","e","a","d">>))>>), FALSE))>>

\* a plan block whose JSON does not parse
R_plan_broken == <<Fence("plan", Broken(FALSE, TRUE))>>

\* What the LLM answers to a planning prompt.
PlanResponses == { R_empty, R_plan, R_plan_broken }

\* generate_plan, up to its await: the planning prompt is put into the
\* history and the LLM call is issued.
GeneratePlan(user_request) ==
  /\ pc = "idle"
  /\ temp_history' = conversation_history
  /\ conversation_history' =
       Append(conversation_history,
              Turn("user", build_planning_prompt(user_request, PlanContext(workspace_dir, disk))))
  /\ llm_messages' = Messages(mode, workspace_dir, disk, conversation_history')
  /\ pc' = "planning"
  /\ UNCHANGED <<mode, workspace_dir, tracked_files, tracker_enabled, disk>>
  /\ UNCHANGED <<branch, iteration, response, tool_results, normalized_call, result, outcome,
                 llm_calls, dispatches, threw, all_tool_calls, llm_last, picks, turns>>
  /\ UNCHANGED NormalizeVars
  /\ UNCHANGED <<fn_in, fn_out, tracker_log, current_plan, plan_response>>
  /\ UNCHANGED ServerVars

\* A return of generate_plan that leaves the planning prompt in the history.
PlanReturnsUnrestored(r) ==
  /\ pc = "planning"
  /\ plan_response' = r
  /\ current_plan' = IF r # <<>> /\ parse_plan(r) # JNull THEN parse_plan(r) ELSE current_plan
  /\ temp_history' = <<>>
  /\ pc' = "idle"
  /\ UNCHANGED <<mode, workspace_dir, conversation_history, tracked_files, tracker_enabled, disk>>
  /\ UNCHANGED <<branch, iteration, response, tool_results, normalized_call, llm_messages, result,
                 outcome, llm_calls, dispatches, threw, all_tool_calls, llm_last, picks, turns>>
  /\ UNCHANGED NormalizeVars
  /\ UNCHANGED <<fn_in, fn_out, tracker_log>>
  /\ UNCHANGED ServerVars

\* generate_plan, from its await on: the history is restored and a plan
\* parsed from the response becomes the current plan; the saved copy goes
\* out of scope.
PlanReturns(r) ==
  /\ pc = "planning"
  /\ plan_response' = r
  /\ conversation_history' = temp_history
  /\ current_plan' = IF r # <<>> /\ parse_plan(r) # JNull THEN parse_plan(r) ELSE current_plan
  /\ temp_history' = <<>>
  /\ pc' = "idle"
  /\ UNCHANGED <<mode, workspace_dir, tracked_files, tracker_enabled, disk>>
  /\ UNCHANGED <<branch, iteration, response, tool_results, normalized_call, llm_messages, result,
                 outcome, llm_calls, dispatches, threw, all_tool_calls, llm_last, picks, turns>>
  /\ UNCHANGED NormalizeVars
  /\ UNCHANGED <<fn_in, fn_out, tracker_log>>
  /\ UNCHANGED ServerVars

NextSession ==
  \/ Next
  \/ \E user_request \in Prompts : GeneratePlan(user_request)
  \/ \E r \in PlanResponses : PlanReturns(r)

\* A session: turns, plans and the calls that set it up, in any order.
SpecSession == Init /\ [][NextSession]_vars

(***************************************************************************)
(* FileChangeTracker on its own: the calls its owner may make on it, in    *)
(* any order; tracker_log lists them, each with whether tracking was       *)
(* enabled and the path tracked when the call was made.                    *)
(***************************************************************************)
\* The most calls made on the tracker.
MaxCalls == 3

\* 'a', '/a' (the same file for the tracker) and 'b'
TrackerPaths == { <<"a">>, <<"/", "a">>, <<"b">> }

TrackerContents == { <<"x">>, <<"y">> }

\* A call on the tracker, entered into the log.
Logged(op, path, content, exists) ==
  /\ Len(tracker_log) < MaxCalls
  /\ tracker_log' = Append(tracker_log,
                           [op |-> op, path |-> path, content |-> content, exists |-> exists,
                            enabled |-> tracker_enabled,
                            tracked |-> Has(tracked_files, normalize_path(path))])
  /\ UNCHANGED <<mode, workspace_dir, conversation_history, disk>>
  /\ UNCHANGED TurnVars
  /\ UNCHANGED NormalizeVars
  /\ UNCHANGED <<fn_in, fn_out>>
  /\ UNCHANGED PlanVars
  /\ UNCHANGED ServerVars

\* FileChangeTracker.record_read
RecordRead(path, content, exists) ==
  /\ Logged("record_read", path, content, exists)
  /\ tracked_files' = record_read(tracked_files, tracker_enabled, path, content, exists)
  /\ UNCHANGED tracker_enabled

\* FileChangeTracker.record_write
RecordWrite(path, content) ==
  /\ Logged("record_write", path, content, TRUE)
  /\ tracked_files' = record_write(tracked_files, tracker_enabled, path, content)
  /\ UNCHANGED tracker_enabled

\* FileChangeTracker.record_delete
RecordDelete(path) ==
  /\ Logged("record_delete", path, <<>>, TRUE)
  /\ tracked_files' = record_delete(tracked_files, tracker_enabled, path)
  /\ UNCHANGED tracker_enabled

\* FileChangeTracker.set_enabled
SetEnabled(enabled) ==
  /\ Logged("set_enabled", <<>>, <<>>, enabled)
  /\ tracker_enabled' = enabled
  /\ UNCHANGED tracked_files

\* FileChangeTracker.clear
Clear ==
  /\ Logged("clear", <<>>, <<>>, TRUE)
  /\ tracked_files' = <<>>
  /\ UNCHANGED tracker_enabled

NextTracker ==
  \/ \E path \in TrackerPaths, content \in TrackerContents, exists \in BOOLEAN :
       RecordRead(path, content, exists)
  \/ \E path \in TrackerPaths, content \in TrackerContents : RecordWrite(path, content)
  \/ \E path \in TrackerPaths : RecordDelete(path)
  \/ \E enabled \in BOOLEAN : SetEnabled(enabled)
  \/ Clear

\* The tracker as AgentLoop.__init__ constructs it, then any calls.
SpecTracker == Init /\ [][NextTracker]_vars

(***************************************************************************)
(* The server (main.py): one AgentLoop, agent, shared by every request,    *)
(* and uvicorn's event loop with its one thread.  The coroutine of a POST  *)
(* /chat holds the thread from one await that suspends it to the next:     *)
(* process() is suspended only in _call_llm, at the awaited post of the    *)
(* httpx client.  Nothing in _execute_tool suspends it: run_command is    *)
(* declared async but calls subprocess.run, which returns when the command *)
(* has ended.  A step of a request is what it executes between two         *)
(* suspensions; the dispatch of a tool is split at the start of the tool   *)
(* so that the time the tool takes is a state.  requests[r].appended       *)
(* lists the positions of the turns request r has put into the history.    *)
(***************************************************************************)
\* The most answers the LLM gives to the requests of a run.
MaxReplies == 3

\* run_command with the command that outlasts its timeout
R_run_sleep ==
  Calling(Call(JStr(Name_run_command), JObj(<<Item(Key_command, JStr(Cmd_sleep))>>)))

\* What the LLM answers to the requests of the server.
ServerResponses == { R_prose, R_list, R_write, R_run_sleep }

RECURSIVE AnswersTo(_)
AnswersTo(n) == IF n = 0 THEN 0 ELSE requests[n].answers + AnswersTo(n - 1)

\* The positions first..last of the history.
Positions(first, last) == [i \in 1..(last - first + 1) |-> first + i - 1]

\* The awaited post of _call_llm returns to request r.
ServedAnswer(r) ==
  /\ loop_thread = 0
  /\ requests[r].pc = "awaiting_llm"
  /\ AnswersTo(MaxRequests) < MaxReplies

\* What no step of the server writes.
ServerFrame ==
  /\ UNCHANGED <<workspace_dir, tracker_enabled>>
  /\ UNCHANGED TurnVars
  /\ UNCHANGED NormalizeVars
  /\ UNCHANGED <<fn_in, fn_out, tracker_log>>
  /\ UNCHANGED PlanVars

\* POST /mode while requests are served
ServedSetMode(m) ==
  /\ loop_thread = 0
  /\ mode' = IF m \in {"chat", "agent"} THEN m ELSE mode
  /\ UNCHANGED <<conversation_history, tracked_files, disk, requests, loop_thread>>
  /\ ServerFrame

\* POST /chat: chat() calls agent.process(), which runs to its first await.
ServedProcess(r, user_prompt) ==
  /\ loop_thread = 0
  /\ requests[r].pc = "none"
  /\ conversation_history' = Append(conversation_history, Turn("user", user_prompt))
  /\ requests' = [requests EXCEPT ![r] =
       [@ EXCEPT !.pc = "awaiting_llm",
                 !.branch = IF mode = "chat" THEN "chat" ELSE "agent",
                 !.llm_messages = Messages(mode, workspace_dir, disk, conversation_history'),
                 !.appended = <<Len(conversation_history')>>]]
  /\ UNCHANGED <<mode, tracked_files, disk, loop_thread>>
  /\ ServerFrame

\* process() of request r gets no response and returns the failure message.
ServedProviderFailure(r) ==
  /\ ServedAnswer(r)
  /\ requests' = [requests EXCEPT ![r] =
       [@ EXCEPT !.pc = "returned",
                 !.answers = @ + 1,
                 !.result = build_response(FailureText, FailureResults(requests[r].tool_results),
                                           IF requests[r].branch = "chat" THEN 0
                                           ELSE requests[r].iteration, mode)]]
  /\ UNCHANGED <<mode, conversation_history, tracked_files, disk, loop_thread>>
  /\ ServerFrame

\* process() of request r in chat mode appends the response and returns.
ServedChatReply(r, resp) ==
  /\ ServedAnswer(r)
  /\ requests[r].branch = "chat"
  /\ conversation_history' = Append(conversation_history, Turn("assistant", resp))
  /\ requests' = [requests EXCEPT ![r] =
       [@ EXCEPT !.pc = "returned",
                 !.answers = @ + 1,
                 !.response = resp,
                 !.appended = Append(@, Len(conversation_history')),
                 !.result = build_response(ChatText(resp), requests[r].tool_results, 0, mode)]]
  /\ UNCHANGED <<mode, tracked_files, disk, loop_thread>>
  /\ ServerFrame

\* process() of request r finds no tool call: the final response.
ServedFinalReply(r, resp) ==
  /\ ServedAnswer(r)
  /\ requests[r].branch = "agent"
  /\ ~extract_tool_call(resp).found
  /\ conversation_history' = conversation_history \o FinalTurns(resp)
  /\ requests' = [requests EXCEPT ![r] =
       [@ EXCEPT !.pc = "returned",
                 !.answers = @ + 1,
                 !.response = resp,
                 !.appended = @ \o Positions(Len(conversation_history) + 1,
                                             Len(conversation_history')),
                 !.result = build_response(clean_response(resp), requests[r].tool_results,
                                           requests[r].iteration + 1, mode)]]
  /\ UNCHANGED <<mode, tracked_files, disk, loop_thread>>
  /\ ServerFrame

\* process() of request r finds a tool call, normalizes it and enters
\* _execute_tool, which keeps the thread until the tool has ended.
ServedToolCall(r, resp) ==
  /\ ServedAnswer(r)
  /\ requests[r].branch = "agent"
  /\ extract_tool_call(resp).found
  /\ ~normalize_tool_call(extract_tool_call(resp).call, workspace_dir.set).raised
  /\ requests' = [requests EXCEPT ![r] =
       [@ EXCEPT !.pc = "executing_tool",
                 !.answers = @ + 1,
                 !.response = resp,
                 !.normalized_call =
                    [call |-> normalize_tool_call(extract_tool_call(resp).call,
                                                  workspace_dir.set).call,
                     warnings |-> normalize_tool_call(extract_tool_call(resp).call,
                                                      workspace_dir.set).warnings]]]
  /\ loop_thread' = r
  /\ UNCHANGED <<mode, conversation_history, tracked_files, disk>>
  /\ ServerFrame

\* What _execute_tool gives for the call of request r.
ServedExecuted(r) ==
  execute_tool(requests[r].normalized_call.call,
               [disk |-> disk, tracked_files |-> tracked_files,
                tracker_enabled |-> tracker_enabled, workspace_dir |-> workspace_dir])

\* _execute_tool returns to process() of request r: the result is recorded,
\* the two turns are appended and the next LLM call is issued, or the
\* iteration cap ends the turn.
ServedToolReturn(r) ==
  /\ loop_thread = r
  /\ requests[r].pc = "executing_tool"
  /\ disk' = ServedExecuted(r).disk
  /\ tracked_files' = ServedExecuted(r).tracked_files
  /\ conversation_history' =
       conversation_history \o ToolTurns(requests[r].response, ServedExecuted(r).text)
  /\ requests' = [requests EXCEPT ![r] =
       [@ EXCEPT !.pc = IF requests[r].iteration + 1 < max_iterations
                        THEN "awaiting_llm" ELSE "returned",
                 !.iteration = @ + 1,
                 !.tool_results =
                    Append(@, ToolResult(GetOr(requests[r].normalized_call.call, Key_tool,
                                               JStr(<<"u","n","k","n","o","w","n">>)).s,
                                         ServedExecuted(r).args, ServedExecuted(r).text,
                                         StatusOf(ServedExecuted(r).text),
                                         requests[r].normalized_call.warnings)),
                 !.appended = @ \o Positions(Len(conversation_history) + 1,
                                             Len(conversation_history')),
                 !.llm_messages = IF requests[r].iteration + 1 < max_iterations
                                  THEN Messages(mode, workspace_dir, disk', conversation_history')
                                  ELSE @,
                 !.result = IF requests[r].iteration + 1 < max_iterations THEN @
                            ELSE build_response(CappedText(clean_response(requests[r].response)),
                                                Append(requests[r].tool_results,
                                                       ToolResult(GetOr(requests[r].normalized_call.call, Key_tool,
                                                                        JStr(<<"u","n","k","n","o","w","n">>)).s,
                                                                  ServedExecuted(r).args,
                                                                  ServedExecuted(r).text,
                                                                  StatusOf(ServedExecuted(r).text),
                                                                  requests[r].normalized_call.warnings)),
                                                max_iterations, mode)]]
  /\ loop_thread' = 0
  /\ UNCHANGED mode
  /\ ServerFrame

NextServer ==
  \/ \E m \in {"chat", "agent"} : ServedSetMode(m)
  \/ \E r \in Requests, user_prompt \in Prompts : ServedProcess(r, user_prompt)
  \/ \E r \in Requests : ServedProviderFailure(r)
  \/ \E r \in Requests, resp \in ServerResponses : ServedChatReply(r, resp)
  \/ \E r \in Requests, resp \in ServerResponses : ServedFinalReply(r, resp)
  \/ \E r \in Requests, resp \in ServerResponses : ServedToolCall(r, resp)
  \/ \E r \in Requests : ServedToolReturn(r)

\* The server after agent = AgentLoop(), then the requests it serves.
SpecServer == Init /\ [][NextServer]_vars

(***************************************************************************)
(* Properties                                                              *)
(***************************************************************************)
\* The tool_calls list that reports the tool results of the turn in order.
Reported(results) ==
  [i \in 1..Len(results) |->
     [tool |-> results[i].tool, args |-> results[i].args, result |-> results[i].result]]

\* text opens with the notice of the iteration cap
HasCapNotice(text) ==
  /\ Len(text) >= 3
  /\ SubSeq(text, 1, 3) =
       <<Lit("I've completed "), Num(15), Lit(" tool operations. Here's what I found:\n\n")>>

\* C1: in agent mode, a turn in which every LLM response held an extractable
\* tool call ends at the cap: exactly 15 LLM calls and 15 dispatches, and a
\* returned response that opens with the "I've completed 15 tool operations"
\* notice and lists the 15 tool calls in dispatch order.
C1_AllToolCallsEndAtCap ==
  (pc = "idle" /\ branch = "agent" /\ outcome # "none" /\ all_tool_calls)
  => /\ outcome = "cap"
     /\ llm_calls = 15
     /\ dispatches = 15
     /\ result.status = "returned"
     /\ HasCapNotice(result.response)
     /\ Len(result.tool_calls) = 15
     /\ result.tool_calls = Reported(tool_results)

\* C2: in agent mode, the first non-empty LLM response from which no tool
\* call is extracted ends the turn: in the step that receives it, it is
\* appended to the history as exactly one assistant turn (raw), it is returned
\* as the final response (its text, stray tool-call fencing stripped), and no
\* LLM call or tool dispatch follows for that prompt.
C2_ToolFreeResponseEndsTurn ==
  [][ /\ (pc = "awaiting_llm" /\ branch = "agent" /\ pc' # "awaiting_llm"
          /\ response' # <<>> /\ ~extract_tool_call(response').found)
         => /\ conversation_history' = Append(conversation_history, Turn("assistant", response'))
            /\ pc' = "idle"
            /\ outcome' = "final"
            /\ result'.status = "returned"
            /\ result'.response = clean_response(response')
            /\ llm_calls' = llm_calls
            /\ dispatches' = dispatches
      /\ (outcome = "final" /\ turns' = turns)
         => /\ pc' = "idle"
            /\ llm_calls' = llm_calls
            /\ dispatches' = dispatches
            /\ result' = result ]_vars

\* C2 happens: a turn ended by a tool-free response after a tool call, the
\* returned text differing from the raw response by the stripped fencing.
C2_Witness ==
  /\ outcome = "final"
  /\ dispatches = 1
  /\ Len(conversation_history) = 4
  /\ conversation_history[4] = Turn("assistant", response)
  /\ result.response # response

\* C3: in agent mode, every dispatched tool call adds exactly two turns to
\* the history, an assistant turn holding the raw LLM response and then a
\* user turn holding the tool result text; nothing is appended while the tool
\* runs, and the next LLM call, when there is one, is issued with both turns
\* as the last of its messages.
C3_DispatchAddsTwoTurns ==
  [][ /\ (pc = "awaiting_llm" /\ pc' = "executing_tool")
         => /\ conversation_history' = conversation_history
            /\ llm_calls' = llm_calls
      /\ pc = "executing_tool"
         => /\ Len(tool_results') = Len(tool_results) + 1
            /\ conversation_history' =
                 conversation_history
                 \o <<Turn("assistant", response),
                      Turn("user", <<Lit("Tool result:\n")>>
                                   \o tool_results'[Len(tool_results')].result)>>
            /\ pc' = "awaiting_llm"
               => /\ llm_calls' = llm_calls + 1
                  /\ SubSeq(llm_messages', 2, Len(llm_messages')) = conversation_history' ]_vars

\* C3 happens: the third LLM call of a turn is out after two dispatches, the
\* raw response of the last one holding fencing that cleaning would strip.
C3_Witness ==
  /\ pc = "awaiting_llm"
  /\ dispatches = 2
  /\ llm_calls = 3
  /\ Len(conversation_history) = 5
  /\ clean_response(response) # response
  /\ llm_messages[Len(llm_messages) - 1] = Turn("assistant", response)

\* C4: in chat mode process() makes exactly one LLM call per prompt,
\* dispatches no tool and leaves the file tracker (and the disk) unchanged,
\* even when the response holds a well-formed tool-call fence; it returns the
\* LLM text verbatim and an empty tool_calls list.
C4_ChatModeSingleCall ==
  /\ [](branch = "chat"
        => /\ llm_calls = 1
           /\ dispatches = 0
           /\ pc # "executing_tool"
           /\ outcome = "chat"
              => /\ pc = "idle"
                 /\ result.status = "returned"
                 /\ result.response = response
                 /\ result.tool_calls = <<>>)
  /\ [][ ((pc = "idle" /\ pc' = "awaiting_llm") \/ (pc = "awaiting_llm" /\ branch = "chat"))
         => /\ tracked_files' = tracked_files
            /\ disk' = disk ]_vars

\* C4 happens: a chat turn has returned a response that holds a well-formed
\* write_file call.
C4_Witness ==
  /\ branch = "chat"
  /\ outcome = "chat"
  /\ response = R_write
  /\ extract_tool_call(response).found
  /\ result.response = R_write

\* C5 as stated: a turn in which an LLM call returns no response ends with
\* the provider-failure message and a result that records zero tool calls.
C5_FailureRecordsNoToolCall ==
  outcome = "failure"
  => /\ pc = "idle"
     /\ result.status = "returned"
     /\ result.response = FailureText
     /\ result.tool_calls = <<>>

\* C5, amended: a turn in which an LLM call returns no response, in whichever
\* iteration, ends with the provider-failure message, and the result records
\* the tool calls dispatched earlier in the turn, in dispatch order: none
\* when the first LLM call of the turn fails, as always in chat mode.
C5_FailureRecordsEarlierToolCalls ==
  outcome = "failure"
  => /\ pc = "idle"
     /\ result.status = "returned"
     /\ result.response = FailureText
     /\ Len(result.tool_calls) = dispatches
     /\ result.tool_calls = Reported(tool_results)
     /\ result.iterations = dispatches
     /\ (llm_calls = 1 \/ branch = "chat") => result.tool_calls = <<>>

\* C5 happens: the second LLM call of a turn returned nothing after one
\* dispatch.
C5_Witness ==
  /\ outcome = "failure"
  /\ llm_calls = 2
  /\ dispatches = 1
  /\ Len(result.tool_calls) = 1

\* C6: an exception raised while a built-in or a dynamically loaded tool
\* runs is caught, does not leave process(), and gives a ToolResult whose
\* status is error.
C6_ToolExceptionGivesErrorStatus ==
  \A i \in 1..Len(tool_results) :
    threw[i] => (tool_results[i].status = "error" /\ outcome # "raised")

\* the six built-in handlers of _execute_tool
BuiltInNames ==
  {Name_list_tools, Name_read_tool, Name_run_command, Name_list_directory, Name_read_file,
   Name_write_file}

\* C7: a tool call whose resolved name is neither a built-in handler nor a
\* script of the tools directory gives a ToolResult with status error, and
\* the next LLM call has its result text in the history.
C7_UnknownToolGivesErrorStatus ==
  \A i \in 1..Len(tool_results) :
    (tool_results[i].tool \notin BuiltInNames /\ ~Has(local_tools, tool_results[i].tool))
    => /\ tool_results[i].status = "error"
       /\ pc = "awaiting_llm"
          => \E k \in 1..Len(llm_messages) :
               llm_messages[k] = Turn("user", <<Lit("Tool result:\n")>> \o tool_results[i].result)

\* The dispatched call lacks a required parameter that has no default.
LacksRequired(tool_result) ==
  /\ HasSchema(tool_result.tool)
  /\ \E n \in 1..Len(SchemaOf(tool_result.tool).parameters) :
       LET param == SchemaOf(tool_result.tool).parameters[n]
       IN param.required /\ param.default = JNull /\ ~Has(tool_result.args, param.name)

\* C8: a tool call that after normalization lacks a required parameter with
\* no default carries a 'Missing required parameter' warning and its dispatch
\* gives an error-status ToolResult.
C8_MissingParameterGivesErrorStatus ==
  \A i \in 1..Len(tool_results) :
    LacksRequired(tool_results[i])
    => /\ \E k \in 1..Len(tool_results[i].warnings) :
            tool_results[i].warnings[k][1] = Lit("Missing required parameter '")
       /\ tool_results[i].status = "error"

\* C9: process() never raises, whatever the LLM returns: every turn ends by
\* returning a text response.
C9_ProcessNeverRaises ==
  (pc = "idle" /\ outcome # "none") => (outcome # "raised" /\ result.status = "returned")

\* C10: normalize_tool_call never raises: every input gives a (normalized
\* call, warnings) pair.
C10_NormalizeNeverRaises ==
  normalize_out.done
  => /\ ~normalize_out.out.raised
     /\ Has(normalize_out.out.call, Key_tool)
     /\ Has(normalize_out.out.call, Key_args)

\* The canonical tools that own name as their name or as one of their aliases.
Owners(name) ==
  {TOOL_SCHEMAS[n].name : n \in {m \in 1..Len(TOOL_SCHEMAS) :
     \/ TOOL_SCHEMAS[m].name = name
     \/ \E i \in 1..Len(TOOL_SCHEMAS[m].aliases) : lower(TOOL_SCHEMAS[m].aliases[i]) = name}}

\* C11: for every canonical tool name and every declared alias, written in
\* any letter case, tool-name resolution returns the canonical name that owns
\* it, and no name or alias is owned by two canonical tools.
C11_ResolvesEveryDeclaredName ==
  (fn_out.done /\ fn_in.fn = "resolve_tool_name" /\ Owners(lower(fn_in.raw_name)) # {})
  => /\ Cardinality(Owners(lower(fn_in.raw_name))) = 1
     /\ fn_out.value \in Owners(lower(fn_in.raw_name))

\* The keys of raw_args that are names of the parameter.
Supplied(raw_args, param) ==
  {k \in {raw_args[i].k : i \in 1..Len(raw_args)} :
     \E i \in 1..Len(ParamNames(param)) : ParamNames(param)[i] = k}

\* Every key of raw_args is a declared name of a parameter of the schema, and
\* every required parameter has a key.
DeclaredAndComplete(raw_args, schema) ==
  /\ \A i \in 1..Len(raw_args) :
       \E n \in 1..Len(schema.parameters) : raw_args[i].k \in Supplied(raw_args, schema.parameters[n])
  /\ \A n \in 1..Len(schema.parameters) :
       schema.parameters[n].required => Supplied(raw_args, schema.parameters[n]) # {}

\* Every required parameter is bound under its canonical name to the value
\* of a key supplied for it.
RequiredBound(raw_args, schema, normalized) ==
  \A n \in 1..Len(schema.parameters) :
    schema.parameters[n].required
    => /\ Has(normalized, schema.parameters[n].name)
       /\ \E k \in Supplied(raw_args, schema.parameters[n]) :
            Get(normalized, schema.parameters[n].name) = Get(raw_args, k)

\* The value of some raw key (each key has its own value) is bound to two
\* parameters.
DoubleBound(raw_args, normalized) ==
  \E i \in 1..Len(raw_args) :
    /\ raw_args[i].v # JNull
    /\ Cardinality({j \in 1..Len(normalized) : normalized[j].v = raw_args[i].v}) > 1

C13_NoKeyBoundTwice ==
  (fn_out.done /\ fn_in.fn = "normalize_arguments")
  => ~DoubleBound(fn_in.raw_args, fn_out.value.normalized)

\* C14: path sanitization is idempotent: sanitize(sanitize(p)) = sanitize(p)
\* for every input string p, whether or not a workspace is set.
C14_SanitizeIdempotent ==
  (fn_out.done /\ fn_in.fn = "sanitize_path")
  => sanitize_path(fn_out.value, fn_in.workspace_set) = fn_out.value

\* C14 happens: an input that sanitization changes has been sanitized.
C14_Witness ==
  /\ fn_out.done
  /\ fn_in.fn = "sanitize_path"
  /\ fn_in.path = <<"a", "\\", ".", ".", "/">>
  /\ fn_out.value = <<".">>

\* The segments of a path string between its slashes.
Segments(path) == {Split(path, "/")[i] : i \in 1..Len(Split(path, "/"))}

\* C15: for every input string the sanitized path never escapes the root: it
\* has no '..' segment, no leading slash, no backslash, no null byte and no
\* empty segment; an input whose segments are all empty, '.' or '..' yields
\* '.'; and sanitize('../../etc/passwd') = 'etc/passwd'.
C15_SanitizedStaysInRoot ==
  (fn_out.done /\ fn_in.fn = "sanitize_path")
  => /\ fn_out.value # <<>>
     /\ Head(fn_out.value) # "/"
     /\ \A i \in 1..Len(fn_out.value) : fn_out.value[i] \notin {"\\", NUL}
     /\ Segments(fn_out.value) \cap {<<>>, <<".", ".">>} = {}
     /\ (Segments(Replace(Replace(fn_in.path, NUL, <<>>), "\\", <<"/">>))
           \subseteq {<<>>, <<".">>, <<".", ".">>})
        => fn_out.value = <<".">>
     /\ fn_in.path = Path_passwd
        => fn_out.value = <<"e","t","c","/","p","a","s","s","w","d">>

\* C15 happens: '../../etc/passwd' has been sanitized to 'etc/passwd'.
C15_Witness ==
  /\ fn_out.done
  /\ fn_in.fn = "sanitize_path"
  /\ fn_in.path = Path_passwd
  /\ fn_out.value = <<"e","t","c","/","p","a","s","s","w","d">>

\* The root _resolve_path works under for the workspace it is given.
Root == IF fn_in.workspace_dir.set /\ fn_in.workspace_dir.path \in DOMAIN disk
        THEN fn_in.workspace_dir.path ELSE Cwd

\* p is root or lies beneath it.
Beneath(p, root) == Len(p) >= Len(root) /\ \A i \in 1..Len(root) : p[i] = root[i]

\* Where the path string leads from root: an absolute path from /, a relative
\* one from root, '..' stepping to the parent.
Target(path, root) ==
  Resolve((IF path # <<>> /\ Head(path) = "/" THEN <<>> ELSE root) \o Components(path), <<>>)

\* C16 as stated: for every path string the path resolver returns, without
\* raising, a path that is the effective workspace root or lies beneath it:
\* the place the string leads to when that is beneath the root, and exactly
\* the root when it is outside.
C16_ResolvedWithinRoot ==
  (fn_out.done /\ fn_in.fn = "resolve_path")
  => /\ ~fn_out.value.raised
     /\ Beneath(fn_out.value.path, Root)
     /\ fn_out.value.path =
          IF Beneath(Target(fn_in.path, Root), Root) THEN Target(fn_in.path, Root) ELSE Root

\* C16, amended: the same for every path string that holds no null byte.
C16_ResolvedWithinRootNoNul ==
  (fn_out.done /\ fn_in.fn = "resolve_path"
   /\ \A i \in 1..Len(fn_in.path) : fn_in.path[i] # NUL)
  => /\ ~fn_out.value.raised
     /\ Beneath(fn_out.value.path, Root)
     /\ fn_out.value.path =
          IF Beneath(Target(fn_in.path, Root), Root) THEN Target(fn_in.path, Root) ELSE Root

\* C16 happens: with the workspace /w, '../a' leads outside the root and the
\* resolver has given the root.
C16_Witness ==
  /\ fn_out.done
  /\ fn_in.fn = "resolve_path"
  /\ fn_in.workspace_dir = Workspace(<<Name_w>>)
  /\ fn_in.path = <<".", ".", "/", "a">>
  /\ ~Beneath(Target(fn_in.path, Root), Root)
  /\ fn_out.value = [raised |-> FALSE, path |-> <<Name_w>>]


\* The paths the tracker files its entries under.
TrackerKeys == { normalize_path(path) : path \in TrackerPaths }

\* The call a step of the tracker makes.
LastCall == tracker_log'[Len(tracker_log')]

\* Whether the step is the given call on a path filed under key.
CallOn(op, key) == LastCall.op = op /\ normalize_path(LastCall.path) = key

\* What a first observation of a path records as its original state.
FirstSeen(key) ==
  IF LastCall.op = "record_read"
  THEN TrackedFile(key, IF LastCall.exists THEN JStr(LastCall.content) ELSE JNull, JNull, LastCall.exists)
  ELSE TrackedFile(key, JNull, JStr(LastCall.content), FALSE)

\* The entry of a tracked path after a call that is not clear().
KeptEntry(key) ==
  /\ Has(tracked_files', key)
  /\ Get(tracked_files', key).original_content = Get(tracked_files, key).original_content
  /\ Get(tracked_files', key).exists_originally = Get(tracked_files, key).exists_originally
  /\ CallOn("record_write", key) =>
       Get(tracked_files', key) =
         IF LastCall.enabled
         THEN [Get(tracked_files, key) EXCEPT !.new_content = JStr(LastCall.content)]
         ELSE Get(tracked_files, key)
  /\ ~CallOn("record_write", key) /\ ~CallOn("record_delete", key) =>
       Get(tracked_files', key) = Get(tracked_files, key)

\* C17: the original content and the existed-originally flag of a path are
\* those of its first observation (a read or a write), no later record_read,
\* record_write or record_delete changes them before clear(), and a later
\* write changes only the new content.
C17_OriginalFixedByFirstObservation ==
  [][ \A key \in TrackerKeys :
        (tracker_log' # tracker_log /\ LastCall.op # "clear") =>
          /\ Has(tracked_files, key) => KeptEntry(key)
          /\ ( /\ ~Has(tracked_files, key)
               /\ Has(tracked_files', key)
               /\ LastCall.op \in {"record_read", "record_write"} ) =>
               Get(tracked_files', key) = FirstSeen(key) ]_vars

\* C17 witness: a file read as 'x', written as 'y', then read again as 'y'
\* under another spelling of its path, still has 'x' as its original content.
C17_Witness ==
  /\ Len(tracker_log) = 3
  /\ tracker_log[1].op = "record_read" /\ tracker_log[1].exists
  /\ tracker_log[1].path = <<"a">> /\ tracker_log[1].content = <<"x">>
  /\ tracker_log[2].op = "record_write" /\ tracker_log[2].content = <<"y">>
  /\ tracker_log[2].path = <<"a">>
  /\ tracker_log[3].op = "record_read" /\ tracker_log[3].exists
  /\ tracker_log[3].path = <<"/", "a">> /\ tracker_log[3].content = <<"y">>
  /\ Get(tracked_files, <<"a">>) = TrackedFile(<<"a">>, JStr(<<"x">>), JStr(<<"y">>), TRUE)


\* The key the call at position i of the log files its path under.
KeyAt(i) == normalize_path(tracker_log[i].path)

\* The last two calls are record_read(path, c1, exists) and then
\* record_write(path, c2) with c2 different from c1.
ReadThenWrite ==
  /\ Len(tracker_log) >= 2
  /\ tracker_log[Len(tracker_log) - 1].op = "record_read"
  /\ tracker_log[Len(tracker_log)].op = "record_write"
  /\ KeyAt(Len(tracker_log) - 1) = KeyAt(Len(tracker_log))
  /\ tracker_log[Len(tracker_log) - 1].content # tracker_log[Len(tracker_log)].content

\* The last call is a record_write on a path no earlier call has read.
WriteWithoutRead ==
  /\ Len(tracker_log) >= 1
  /\ tracker_log[Len(tracker_log)].op = "record_write"
  /\ \A i \in 1..(Len(tracker_log) - 1) :
       ~(tracker_log[i].op = "record_read" /\ KeyAt(i) = KeyAt(Len(tracker_log)))

\* The path of the last call is tracked and classified as given.
LastClassified(as) ==
  /\ Has(tracked_files, KeyAt(Len(tracker_log)))
  /\ operation(Get(tracked_files, KeyAt(Len(tracker_log)))) = as

\* A path whose original and new content are identical has no diff and is
\* classified unchanged.
IdenticalUnchanged ==
  \A path \in TrackerPaths :
    ( /\ Has(tracked_files, normalize_path(path))
      /\ Get(tracked_files, normalize_path(path)).original_content =
           Get(tracked_files, normalize_path(path)).new_content ) =>
      /\ generate_diff(tracked_files, path) = JNull
      /\ operation(Get(tracked_files, normalize_path(path))) = "unchanged"

\* C18 as stated: record_read(path, c1, exists) followed by
\* record_write(path, c2), c2 different from c1, classifies the path as
\* modify; record_write on a path with no earlier read classifies it as
\* create; identical original and new content give no diff and unchanged.
C18_ReadWriteClassified ==
  /\ ReadThenWrite => LastClassified("modify")
  /\ WriteWithoutRead => LastClassified("create")
  /\ IdenticalUnchanged

\* C18 amended: with tracking enabled, record_read(path, c1, exists) of a
\* path not yet tracked followed by record_write(path, c2), c2 different from
\* c1, classifies the path as modify when exists is true and as create when
\* it is false; record_write on a path not yet tracked classifies it as
\* create; identical original and new content give no diff and unchanged.
C18_FirstReadWriteClassified ==
  /\ ( /\ ReadThenWrite
       /\ tracker_log[Len(tracker_log) - 1].enabled
       /\ ~tracker_log[Len(tracker_log) - 1].tracked ) =>
       LastClassified(IF tracker_log[Len(tracker_log) - 1].exists THEN "modify" ELSE "create")
  /\ ( /\ Len(tracker_log) >= 1
       /\ tracker_log[Len(tracker_log)].op = "record_write"
       /\ tracker_log[Len(tracker_log)].enabled
       /\ ~tracker_log[Len(tracker_log)].tracked ) =>
       LastClassified("create")
  /\ IdenticalUnchanged

\* C18 witness: a file first read as 'x' and then written as 'y' is a modify
\* with a diff, beside a file written without a read, which is a create.
C18_Witness ==
  /\ Len(tracker_log) = 3
  /\ tracker_log[1].op = "record_write" /\ tracker_log[1].path = <<"b">>
  /\ tracker_log[1].enabled /\ ~tracker_log[1].tracked
  /\ ReadThenWrite
  /\ operation(Get(tracked_files, <<"b">>)) = "create"
  /\ tracker_log[2].enabled /\ ~tracker_log[2].tracked /\ tracker_log[2].exists
  /\ LastClassified("modify")
  /\ generate_diff(tracked_files, tracker_log[3].path) # JNull


\* C19: while tracking is disabled record_read, record_write and
\* record_delete leave the tracked files as they are; set_enabled, in either
\* direction, removes and alters no tracked entry; clear() leaves no tracked
\* file and leaves the enabled flag as it is.
C19_DisabledAndClearFrames ==
  [][ tracker_log' # tracker_log =>
        /\ ( /\ ~tracker_enabled
             /\ LastCall.op \in {"record_read", "record_write", "record_delete"} ) =>
             tracked_files' = tracked_files
        /\ LastCall.op = "set_enabled" => tracked_files' = tracked_files
        /\ LastCall.op = "clear" =>
             /\ tracked_files' = <<>>
             /\ tracker_enabled' = tracker_enabled ]_vars

\* C19 witness: a file written as 'x', tracking then disabled, and the file
\* deleted: the entry still holds 'x' as the new content.
C19_Witness ==
  /\ Len(tracker_log) = 3
  /\ tracker_log[1].op = "record_write" /\ tracker_log[1].enabled
  /\ tracker_log[1].path = <<"a">> /\ tracker_log[1].content = <<"x">>
  /\ tracker_log[2].op = "set_enabled" /\ ~tracker_log[2].exists
  /\ tracker_log[3].op = "record_delete" /\ tracker_log[3].path = <<"/", "a">>
  /\ ~tracker_enabled
  /\ tracked_files = <<Item(<<"a">>, TrackedFile(<<"a">>, JNull, JStr(<<"x">>), FALSE))>>


\* The tools that neither read nor write file content.
NonFileTools == { Name_list_directory, Name_run_command, Name_list_tools, Name_read_tool }

\* _execute_tool returns from one of the tools given.
Dispatches(tools) ==
  /\ pc = "executing_tool"
  /\ pc' # "executing_tool"
  /\ GetOr(normalized_call.call, Key_tool, JNull) \in { JStr(name) : name \in tools }

\* C20: the dispatch of list_directory, run_command, list_tools or read_tool
\* leaves the tracked files as they are, and so does every other step of a
\* turn but the dispatch of a tool: its start, the handling of a tool call
\* and of the tool-free reply that ends it; a turn of one list_directory call
\* and a tool-free reply thus ends with the tracker as it was before the turn.
C20_NonFileToolsLeaveTracker ==
  [][ /\ Dispatches(NonFileTools) =>
           tracked_files' = tracked_files /\ tracker_enabled' = tracker_enabled
      /\ ( \/ pc = "idle" /\ pc' = "awaiting_llm"
           \/ pc = "awaiting_llm" ) =>
           tracked_files' = tracked_files /\ tracker_enabled' = tracker_enabled
      /\ ( /\ pc = "awaiting_llm"
           /\ pc' = "idle"
           /\ outcome' = "final"
           /\ turns' = 1
           /\ Len(tool_results') = 1
           /\ tool_results'[1].tool = Name_list_directory ) =>
           tracked_files' = <<>> ]_vars

\* C20 witness: a turn writes a file and then lists the directory, and the
\* tracker holds the written file when the listing has returned.
C20_Witness ==
  /\ Len(tool_results) = 2
  /\ tool_results[1].tool = Name_write_file
  /\ tool_results[2].tool = Name_list_directory
  /\ tool_results[2].status = "success"
  /\ Has(tracked_files, Name_a_txt)
  /\ operation(Get(tracked_files, Name_a_txt)) # "unchanged"

\* The turn of C20: one list_directory call, then a tool-free reply.
C20_ListingTurnEnded ==
  /\ pc = "idle"
  /\ outcome = "final"
  /\ Len(tool_results) = 1
  /\ tool_results[1].tool = Name_list_directory
  /\ tool_results[1].status = "success"
  /\ tracked_files = <<>>

\* A dispatch of each of the four tools is reached.
C20_RunCommandDispatched == Len(tool_results) = 1 /\ tool_results[1].tool = Name_run_command

C20_ListToolsDispatched == Len(tool_results) = 1 /\ tool_results[1].tool = Name_list_tools

C20_ReadToolDispatched == Len(tool_results) = 1 /\ tool_results[1].tool = Name_read_tool


\* The function applied on its own is run_command, and it has ended.
RunCommandEnded == fn_in.fn = "run_command" /\ fn_out.done

\* C21: run_command never raises; for a command that outlasts the timeout it
\* returns exit code -1 with a stderr that says so, and for any other failure
\* to run the command it returns exit code -1.
C21_RunCommandNeverRaises ==
  RunCommandEnded =>
    /\ ~fn_out.value.raised
    /\ subprocess_run(fn_in.command, fn_in.workspace_dir).raises = "TimeoutExpired" =>
         /\ fn_out.value.return_code = -1
         /\ fn_out.value.stderr = <<Lit("Command timed out")>>
    /\ subprocess_run(fn_in.command, fn_in.workspace_dir).raises # "none" =>
         /\ fn_out.value.return_code = -1
         /\ fn_out.value.stdout = <<>>

\* C21 witness: the command that outlasts the timeout has returned -1.
C21_Witness ==
  /\ RunCommandEnded
  /\ fn_in.command = JStr(Cmd_sleep)
  /\ fn_out.value.return_code = -1
  /\ ~fn_out.value.raised

\* A command that cannot be started has returned -1 as well.
C21_FailureReturned ==
  /\ RunCommandEnded
  /\ fn_in.command = JNum(5)
  /\ fn_out.value.return_code = -1
  /\ fn_out.value.stderr = <<Exc("TypeError")>>


\* The requests whose LLM call, and whose tool execution, is in flight.
LLMCallsInFlight == { r \in Requests : requests[r].pc = "awaiting_llm" }

ToolsInFlight == { r \in Requests : requests[r].pc = "executing_tool" }

\* The positions of the history that hold a turn of request r.
TurnsOf(r) == { requests[r].appended[i] : i \in 1..Len(requests[r].appended) }

\* A turn of one request stands between two turns of another.
Interleaved ==
  \E r \in Requests : \E o \in Requests \ {r} :
    \E i \in TurnsOf(r), j \in TurnsOf(o), k \in TurnsOf(r) : i < j /\ j < k

\* C22: for the one AgentLoop of the server at most one LLM call and at most
\* one tool execution are in flight at any time, also with several POST /chat
\* requests received concurrently, and the turns of two requests never
\* interleave in the conversation history.
C22_OneCallInFlight ==
  /\ Cardinality(LLMCallsInFlight) <= 1
  /\ Cardinality(ToolsInFlight) <= 1
  /\ ~Interleaved

\* The part of C22 that holds: at most one tool execution is in flight.
C22_OneToolInFlight == Cardinality(ToolsInFlight) <= 1

\* Two LLM calls in flight, and the turns of two requests interleaved.
C22_TwoCallsInFlight == Cardinality(LLMCallsInFlight) = 2

C22_TurnsInterleaved ==
  /\ Interleaved
  /\ \A r \in Requests : requests[r].pc = "returned"

\* Request r waits for its LLM call, or for the command it executes.
Waiting(r) ==
  \/ requests[r].pc = "awaiting_llm"
  \/ /\ requests[r].pc = "executing_tool"
     /\ GetOr(requests[r].normalized_call.call, Key_tool, JNull) = JStr(Name_run_command)

\* C23: while a request waits for an LLM call or for a command it executes,
\* it does not hold the thread of the event loop, and a request that has
\* arrived meanwhile can be started.
C23_WaitingLeavesThreadFree ==
  \A r \in Requests :
    Waiting(r) =>
      /\ loop_thread # r
      /\ \A o \in Requests \ {r} :
           requests[o].pc = "none" => \E user_prompt \in Prompts : ENABLED ServedProcess(o, user_prompt)

\* The part of C23 that holds: a request that waits for its LLM call leaves
\* the thread to the others.
C23_LLMCallLeavesThreadFree ==
  \A r \in Requests :
    requests[r].pc = "awaiting_llm" =>
      /\ loop_thread # r
      /\ (loop_thread = 0 =>
            \A o \in Requests \ {r} :
              requests[o].pc = "none" =>
                \E user_prompt \in Prompts : ENABLED ServedProcess(o, user_prompt))

\* A request executes the command that outlasts the timeout while another
\* has arrived and not been started.
C23_CommandHoldsThread ==
  \E r \in Requests : \E o \in Requests \ {r} :
    /\ Waiting(r)
    /\ requests[r].pc = "executing_tool"
    /\ loop_thread = r
    /\ requests[o].pc = "none"

\* The history as the session holds it: while generate_plan waits for the
\* LLM, the history without its planning prompt.
SessionHistory == IF pc = "planning" THEN temp_history ELSE conversation_history

IsPrefix(s, t) == Len(s) <= Len(t) /\ SubSeq(t, 1, Len(s)) = s

\* a step of a turn: process() starts, or is under way
TurnStep == pc \notin {"idle", "planning"} \/ pc' \notin {"idle", "planning"}

\* C24: the conversation history is append-only within a session.  Every
\* step of a process() call, whatever the turn's outcome, keeps the turns
\* already in the history, in their order and with their content; a step that
\* takes a turn out of the history empties the history, resets the current
\* plan and the file tracker, and leaves mode and workspace unchanged.
C24_HistoryAppendOnly ==
  [][ /\ TurnStep => IsPrefix(conversation_history, conversation_history')
      /\ ~IsPrefix(SessionHistory, SessionHistory') =>
            /\ conversation_history' = <<>>
            /\ current_plan' = JNull
            /\ tracked_files' = <<>>
            /\ mode' = mode
            /\ workspace_dir' = workspace_dir ]_vars

\* A session was cleared after a plan was made, a file was written through
\* the tracker and a turn ended, in chat mode and with a workspace set.
C24_Witness ==
  /\ pc = "idle"
  /\ turns = 1
  /\ outcome = "final"
  /\ plan_response = R_plan
  /\ \E i \in 1..Len(tool_results) :
        tool_results[i].tool = Name_write_file /\ tool_results[i].status = "success"
  /\ conversation_history = <<>>
  /\ current_plan = JNull
  /\ tracked_files = <<>>
  /\ mode = "chat"
  /\ workspace_dir # NoWorkspace

\* A turn that ended with an exception out of process() left its turns in
\* the history.
C24_RaisedTurnKept ==
  /\ pc = "idle"
  /\ outcome = "raised"
  /\ conversation_history # <<>>

\* The steps of a turn under way: an LLM call returns, a tool returns.
TurnSteps == pc # "idle" /\ Next

\* A session in which every LLM call and every tool execution returns: weak
\* fairness of the steps of a turn, WF_vars(TurnSteps), written out with
\* pc # "idle" for ENABLED <<TurnSteps>>_vars (while a turn is under way the
\* return of its LLM call or of its tool is the one step that can be taken,
\* and no state of Spec is without a step).
SpecReturning == Spec /\ ([]<>(pc = "idle") \/ []<><<TurnSteps>>_vars)

\* C25: a turn makes at most 15 LLM calls and 15 tool dispatches, exactly one
\* LLM call and no more in chat mode, and a process() call that is over has
\* ended in a final response, a provider-failure response or the
\* capped-iteration response.
C25_TurnEndsInResponse ==
  /\ llm_calls <= max_iterations
  /\ dispatches <= max_iterations
  /\ branch = "chat" => llm_calls = 1 /\ dispatches = 0
  /\ (pc = "idle" /\ turns > 0) => outcome \in {"chat", "final", "failure", "cap"}

\* The part of C25 that holds of the code: the bounds on the calls of a turn.
C25_CallsBounded ==
  /\ llm_calls <= max_iterations
  /\ dispatches <= max_iterations
  /\ branch = "chat" => llm_calls = 1 /\ dispatches = 0

\* The part of C25 that holds of the code: when every LLM call and every tool
\* execution returns, a process() call comes to its end.
C25_TurnComesToEnd == (pc # "idle") ~> (pc = "idle")

\* A turn reached the cap of 15 LLM calls and 15 dispatches.
C25_CapReached ==
  /\ pc = "idle"
  /\ outcome = "cap"
  /\ llm_calls = max_iterations
  /\ dispatches = max_iterations

\* A process() call ended with an exception after one LLM call.
C25_TurnRaised ==
  /\ pc = "idle"
  /\ outcome = "raised"
  /\ llm_calls = 1
  /\ dispatches = 0

\* The text begins with the six characters of "Error:".  Every text a tool
\* returns opens with a literal of the source, and of the literals that open
\* a tool's text only "Error:" itself begins with these characters.
BeginsWithError(text) == text # <<>> /\ text[1] = [lit |-> "Error:"]

\* C26: every ToolResult recorded by process() has status error when its
\* result text begins with the literal "Error:" and status success
\* otherwise; none has status skipped.
C26_StatusFollowsErrorMarker ==
  \A i \in 1..Len(tool_results) :
    /\ tool_results[i].status = (IF BeginsWithError(tool_results[i].result) THEN "error" ELSE "success")
    /\ tool_results[i].status # "skipped"

\* C26 happens: a turn recorded a result that begins with "Error:" and one
\* that reports a failure in other words, which counts as a success.
C26_Witness ==
  /\ Len(tool_results) = 2
  /\ tool_results[1].result[1] = ErrorMarker
  /\ tool_results[1].status = "error"
  /\ tool_results[2].result[1] = Lit("Tool execution error: ")
  /\ tool_results[2].status = "success"

\* The canonical parameter names of the schema of a tool; none for a tool
\* without schema.
CanonicalNames(tool) ==
  IF HasSchema(tool)
  THEN {SchemaOf(tool).parameters[n].name : n \in 1..Len(SchemaOf(tool).parameters)}
  ELSE {}

\* the keys of the args of a call or of a recorded ToolResult
ArgKeys(args) == {args[n].k : n \in 1..Len(args)}

\* C27: every argument key of the normalized call that reaches dispatch, and
\* of every ToolResult recorded, is a canonical parameter name of the schema
\* of the resolved tool: no other key is left in or added.
C27_ArgKeysCanonical ==
  /\ pc = "executing_tool" =>
        ArgKeys(GetOr(normalized_call.call, Key_args, JObj(<<>>)).f)
          \subseteq CanonicalNames(GetOr(normalized_call.call, Key_tool, JStr(<<>>)).s)
  /\ \A i \in 1..Len(tool_results) :
        ArgKeys(tool_results[i].args) \subseteq CanonicalNames(tool_results[i].tool)

\* The part of C27 that holds of the code: the calls that reach dispatch
\* hold canonical parameter names only, and so do the results recorded for
\* the tools that _execute_tool runs itself.
C27_BuiltInArgKeysCanonical ==
  /\ pc = "executing_tool" =>
        ArgKeys(GetOr(normalized_call.call, Key_args, JObj(<<>>)).f)
          \subseteq CanonicalNames(GetOr(normalized_call.call, Key_tool, JStr(<<>>)).s)
  /\ \A i \in 1..Len(tool_results) :
        tool_results[i].tool \in {Name_list_tools, Name_read_tool, Name_run_command,
                                  Name_list_directory, Name_read_file, Name_write_file}
        => ArgKeys(tool_results[i].args) \subseteq CanonicalNames(tool_results[i].tool)

\* A call given with the alias key dir was recorded with the canonical key
\* path.
C27_AliasKeyReplaced ==
  /\ response = R_alias
  /\ Len(tool_results) = 1
  /\ tool_results[1].tool = Name_list_directory
  /\ ArgKeys(tool_results[1].args) = {Key_path}

\* A script of the tools directory was dispatched with a workspace set: the
\* recorded args hold the key _workspace.
C27_WorkspaceKeyAdded ==
  /\ Len(tool_results) = 1
  /\ tool_results[1].tool = <<"d","e","p","l","o","y">>
  /\ ArgKeys(tool_results[1].args) = {Key_workspace}

\* the aliases of the parameter that are keys of raw_args, by their place in
\* param.aliases
PresentAliases(raw_args, param) == {i \in 1..Len(param.aliases) : Has(raw_args, param.aliases[i])}

\* the keys of raw_args that are close to a name of the parameter
FuzzyKeys(raw_args, param) ==
  {raw_args[i].k : i \in {i \in 1..Len(raw_args) :
     get_close_matches(lower(raw_args[i].k),
                       [n \in 1..Len(ParamNames(param)) |-> lower(ParamNames(param)[n])], 7, 10) # <<>>}}

\* the parameter is bound to the value
BoundTo(normalized, param, value) ==
  Has(normalized, param.name) /\ Get(normalized, param.name) = value

\* the parameter is bound to its default, or left out when it has none
Defaulted(normalized, param) ==
  IF param.default # JNull THEN BoundTo(normalized, param, param.default)
  ELSE ~Has(normalized, param.name)

\* The binding of one parameter in the order canonical key, first present
\* alias, fuzzy-matched key, default.
BoundInOrder(raw_args, param, normalized) ==
  IF Has(raw_args, param.name) THEN BoundTo(normalized, param, Get(raw_args, param.name))
  ELSE IF PresentAliases(raw_args, param) # {}
  THEN BoundTo(normalized, param, Get(raw_args, param.aliases[SetMin(PresentAliases(raw_args, param))]))
  ELSE IF FuzzyKeys(raw_args, param) # {}
  THEN \/ \E k \in FuzzyKeys(raw_args, param) : BoundTo(normalized, param, Get(raw_args, k))
       \/ Defaulted(normalized, param)
  ELSE Defaulted(normalized, param)

\* C28: for each declared parameter, argument normalization binds the value
\* under the canonical key if that key is among the raw arguments, else the
\* value under the first present alias, else the value of a fuzzy-matched
\* key; the default is bound only when no raw key matches, and a parameter
\* bound from a raw key carries the value of that key, null included.
C28_BindsInOrder ==
  (fn_out.done /\ fn_in.fn = "normalize_arguments")
  => \A n \in 1..Len(SchemaOf(fn_in.schema).parameters) :
       BoundInOrder(fn_in.raw_args, SchemaOf(fn_in.schema).parameters[n], fn_out.value.normalized)

\* The part of C28 that holds of the code: the same for the raw arguments
\* whose values are all non-null.
C28_BindsNonNullInOrder ==
  (fn_out.done /\ fn_in.fn = "normalize_arguments"
   /\ \A i \in 1..Len(fn_in.raw_args) : fn_in.raw_args[i].v # JNull)
  => \A n \in 1..Len(SchemaOf(fn_in.schema).parameters) :
       BoundInOrder(fn_in.raw_args, SchemaOf(fn_in.schema).parameters[n], fn_out.value.normalized)

\* list_directory given the alias dir and then the canonical key path has
\* the value of path bound.
C28_CanonicalBeforeAlias ==
  /\ fn_out.done
  /\ fn_in.fn = "normalize_arguments"
  /\ fn_in.schema = Name_list_directory
  /\ fn_in.raw_args = <<Item(<<"d","i","r">>, JStr(<<"d","i","r">>)), Item(Key_path, JStr(Key_path))>>
  /\ fn_out.value.normalized = <<Item(Key_path, JStr(Key_path))>>

\* list_directory given the alias dir and a null under the canonical key
\* path has its default bound, neither the null nor the value of dir.
C28_NullGivesDefault ==
  /\ fn_out.done
  /\ fn_in.fn = "normalize_arguments"
  /\ fn_in.schema = Name_list_directory
  /\ fn_in.raw_args = <<Item(<<"d","i","r">>, JStr(<<"d","i","r">>)), Item(Key_path, JNull)>>
  /\ fn_out.value.normalized = <<Item(Key_path, JStr(<<".">>))>>

\* The blocks of a response that are well-formed invocations: tool, json or
\* bare blocks holding a JSON object with a 'tool' key.
Invocations(llm_response) ==
  {i \in 1..Len(llm_response) :
     /\ llm_response[i].seg = "fence"
     /\ llm_response[i].marker \in {"tool", "json", ""}
     /\ llm_response[i].body.shape = "object"
     /\ IsDict(llm_response[i].body.obj)
     /\ Has(llm_response[i].body.obj.f, Key_tool)}

\* the place of a fence kind in the order tool, json, bare
KindRank(marker) == IF marker = "tool" THEN 1 ELSE IF marker = "json" THEN 2 ELSE 3

\* the well-formed invocations of the highest-priority kind that holds one
BestInvocations(llm_response) ==
  {i \in Invocations(llm_response) :
     \A j \in Invocations(llm_response) :
       KindRank(llm_response[i].marker) <= KindRank(llm_response[j].marker)}

\* C29: extraction returns a call whenever the response holds a fenced block
\* that is a well-formed invocation, and the call is the first one of the
\* highest-priority fence kind (tool, then json, then bare) that holds a
\* well-formed invocation, whatever the other blocks are; it returns no call
\* when there is none.
C29_BestInvocationReturned ==
  (fn_out.done /\ fn_in.fn = "extract_tool_call")
  => IF Invocations(fn_in.response) = {} THEN ~fn_out.value.found
     ELSE /\ fn_out.value.found
          /\ fn_out.value.call = fn_in.response[SetMin(BestInvocations(fn_in.response))].body.obj

\* The part of C29 that holds of the code: a call that is returned is a
\* well-formed invocation of the response, held by the first block of its
\* kind, and no block tried before it is one.
C29_ReturnedIsInvocation ==
  (fn_out.done /\ fn_in.fn = "extract_tool_call" /\ fn_out.value.found)
  => \E i \in Invocations(fn_in.response) :
       /\ fn_out.value.call = fn_in.response[i].body.obj
       /\ \A j \in 1..(i - 1) : fn_in.response[j].marker # fn_in.response[i].marker

\* A json block is preferred to the bare block that precedes it.
C29_JsonBeforeBare ==
  /\ fn_out.done
  /\ fn_in.fn = "extract_tool_call"
  /\ Len(fn_in.response) = 2
  /\ fn_in.response[1].marker = ""
  /\ fn_in.response[2].marker = "json"
  /\ Invocations(fn_in.response) = {1, 2}
  /\ fn_in.response[1].body # fn_in.response[2].body
  /\ fn_out.value.found
  /\ fn_out.value.call = fn_in.response[2].body.obj

\* A tool block that does not parse is followed by a well-formed invocation
\* in a json block, and no call is returned.
C29_BrokenBlockEndsSearch ==
  /\ fn_out.done
  /\ fn_in.fn = "extract_tool_call"
  /\ Len(fn_in.response) = 2
  /\ fn_in.response[1] = Fence("tool", Broken(TRUE, TRUE))
  /\ fn_in.response[2].marker = "json"
  /\ Invocations(fn_in.response) = {2}
  /\ ~fn_out.value.found

\* The text opens with the failure message of process().
OpensWithFailure(text) == Len(text) >= Len(FailureText) /\ SubSeq(text, 1, Len(FailureText)) = FailureText

\* C30: in agent mode, when the LLM response holds no fenced block that
\* parses to a JSON object with a 'tool' key (text that does not parse,
\* content that is no object, an object without 'tool'), the step that
\* receives it raises nothing, dispatches no tool and records no tool result,
\* and ends the turn with the text of the response as the final response,
\* not with an error.
C30_NoInvocationEndsTurn ==
  [][ (pc = "awaiting_llm" /\ branch = "agent" /\ pc' # "awaiting_llm"
       /\ response' # <<>> /\ Invocations(response') = {})
      => /\ pc' = "idle"
         /\ outcome' = "final"
         /\ threw' = threw
         /\ dispatches' = dispatches
         /\ tool_results' = tool_results
         /\ normalized_call' = normalized_call
         /\ disk' = disk
         /\ result'.status = "returned"
         /\ result'.response = clean_response(response')
         /\ ~OpensWithFailure(result'.response) ]_vars

\* C30 happens: a turn ended, without any dispatch, with the text of a
\* response whose only block is an object without 'tool' key; the block is
\* part of the returned text.
C30_Witness ==
  /\ pc = "idle"
  /\ outcome = "final"
  /\ response = R_no_tool
  /\ tool_results = <<>>
  /\ dispatches = 0
  /\ result.response = R_no_tool

\* A turn ended with the prose of a response whose tool block does not parse.
C30_BrokenBlockEndsTurn ==
  /\ pc = "idle"
  /\ outcome = "final"
  /\ response = R_broken
  /\ tool_results = <<>>
  /\ result.response = <<Prose("Here is the call.")>>

\* _tool_write_file has returned.
WriteEnded == fn_out.done /\ fn_in.fn = "tool_write_file"

\* ... with the text of a successful write
WriteSucceeded == WriteEnded /\ fn_out.value.text[1] = Lit("Successfully wrote ")

\* the file the path of the write resolves to
WriteTarget == resolve_path(fn_in.path, fn_in.workspace_dir, disk).path

\* the entry of the tracker for the path of the write, after the write
WrittenEntry == Get(fn_out.value.tracked_files, normalize_path(fn_in.path.s))

C31_SameContentUnchanged ==
  /\ WriteSucceeded
  /\ fn_in.tracked_files = <<>>
  /\ fn_in.content = JStr(<<"x">>)
  /\ IsFile(disk, WriteTarget)
  /\ operation(WrittenEntry) = "unchanged"

\* A file that does not exist on disk was written and is classified create.
C31_NewFileCreated ==
  /\ WriteSucceeded
  /\ fn_in.tracked_files = <<>>
  /\ ~Exists(disk, WriteTarget)
  /\ operation(WrittenEntry) = "create"

\* C34: a write_file that returns an error result leaves the file tracker as
\* it was before the dispatch, and so the summary of the changes.
C34_FailedWriteLeavesTracker ==
  (WriteEnded /\ ~WriteSucceeded)
  => /\ fn_out.value.tracked_files = fn_in.tracked_files
     /\ get_summary(fn_out.value.tracked_files) = get_summary(fn_in.tracked_files)

\* The part of C34 that holds of the code: a write_file that fails before
\* the file is looked at, or on a path that is no file on disk, leaves the
\* tracker as it was.
C34_FailedWriteOffFilesLeavesTracker ==
  (WriteEnded /\ ~WriteSucceeded
   /\ (Falsy(fn_in.path) \/ fn_in.content = JNull \/ ~IsStr(fn_in.path) \/ ~IsFile(disk, WriteTarget)))
  => fn_out.value.tracked_files = fn_in.tracked_files

\* write_file of a.txt, on disk and not tracked, with a number for content:
\* the write fails and the summary lists a.txt as deleted.
C34_FailedWriteListedAsDelete ==
  /\ WriteEnded
  /\ fn_in.tracked_files = <<>>
  /\ fn_in.path = JStr(Name_a_txt)
  /\ fn_in.content = JNum(5)
  /\ fn_out.value.text[1] = Lit("Error writing file: ")
  /\ fn_out.value.disk = disk
  /\ get_summary(fn_out.value.tracked_files).deleted = 1
  /\ get_summary(fn_out.value.tracked_files).files = <<[path |-> Name_a_txt, operation |-> "delete"]>>

\* The calls of the log that record something about the file kept under key.
CallsOn(key) ==
  { i \in 1..Len(tracker_log) :
      /\ tracker_log[i].op \in {"record_read", "record_write", "record_delete"}
      /\ KeyAt(i) = key }

\* The file kept under key is tracked, and every call about it was a
\* record_read that found the file.
OnlyRead(key) ==
  /\ Has(tracked_files, key)
  /\ \A i \in CallsOn(key) : tracker_log[i].op = "record_read" /\ tracker_log[i].exists

\* The listing holds an entry for the path.
Listed(changes, path) == \E i \in 1..Len(changes) : changes[i].path = path

\* C32: a path the tracker has observed only through record_read of an
\* existing file is classified unchanged, is absent from get_changes and
\* from the summary, and has no diff.
C32_ReadOnlyUnchanged ==
  \A key \in TrackerKeys :
    OnlyRead(key) =>
      /\ operation(Get(tracked_files, key)) = "unchanged"
      /\ ~Listed(get_changes(tracked_files), key)
      /\ ~Listed(get_summary(tracked_files).files, key)
      /\ get_summary(tracked_files).deleted = 0
      /\ generate_diff(tracked_files, key) = JNull

\* The part of C32 that holds of the code: a path observed only through
\* record_read of a file that does not exist is unchanged, not listed and
\* without a diff.
C32_ReadOfMissingUnchanged ==
  \A key \in TrackerKeys :
    ( /\ Has(tracked_files, key)
      /\ \A i \in CallsOn(key) : tracker_log[i].op = "record_read" /\ ~tracker_log[i].exists ) =>
      /\ operation(Get(tracked_files, key)) = "unchanged"
      /\ ~Listed(get_changes(tracked_files), key)
      /\ generate_diff(tracked_files, key) = JNull

\* A single record_read of the existing file a holding 'x': the summary
\* lists a as deleted, and there is a diff for it.
C32_ReadListedAsDelete ==
  /\ Len(tracker_log) = 1
  /\ tracker_log[1].op = "record_read" /\ tracker_log[1].exists
  /\ tracker_log[1].path = <<"a">> /\ tracker_log[1].content = <<"x">>
  /\ OnlyRead(<<"a">>)
  /\ operation(Get(tracked_files, <<"a">>)) = "delete"
  /\ get_summary(tracked_files).deleted = 1
  /\ get_changes(tracked_files) = <<FileChange(<<"a">>, "delete", JStr(<<"x">>), JNull)>>
  /\ generate_diff(tracked_files, <<"a">>) # JNull

\* The last call is a record_delete, made with tracking enabled.
DeleteRecorded ==
  /\ Len(tracker_log) >= 1
  /\ tracker_log[Len(tracker_log)].op = "record_delete"
  /\ tracker_log[Len(tracker_log)].enabled

\* The path of the last call is listed as a delete and counted as one.
LastListedAsDelete ==
  /\ LastClassified("delete")
  /\ \E i \in 1..Len(get_changes(tracked_files)) :
       /\ get_changes(tracked_files)[i].path = KeyAt(Len(tracker_log))
       /\ get_changes(tracked_files)[i].operation = "delete"
  /\ get_summary(tracked_files).deleted >= 1

\* C35: record_delete on a path the tracker has never observed classifies
\* the path as delete: it is in get_changes with operation delete and is
\* counted in the deleted total of the summary.
C35_DeleteOfUnobservedListed ==
  (DeleteRecorded /\ ~tracker_log[Len(tracker_log)].tracked) => LastListedAsDelete

\* The part of C35 that holds of the code: record_delete on a path whose
\* entry holds an original content is listed and counted as a delete.
C35_DeleteOfKnownContentListed ==
  ( /\ DeleteRecorded
    /\ tracker_log[Len(tracker_log)].tracked
    /\ Get(tracked_files, KeyAt(Len(tracker_log))).original_content # JNull ) => LastListedAsDelete

\* A single record_delete of a: a is tracked, classified unchanged, and
\* the summary is empty.
C35_DeleteOfUnobservedUnchanged ==
  /\ Len(tracker_log) = 1
  /\ DeleteRecorded
  /\ tracker_log[1].path = <<"a">>
  /\ tracked_files = <<Item(<<"a">>, TrackedFile(<<"a">>, JNull, JNull, TRUE))>>
  /\ LastClassified("unchanged")
  /\ get_changes(tracked_files) = <<>>
  /\ get_summary(tracked_files).total_files = 0

\* C40: in every state of the tracker the summary agrees with the tracked
\* files: total_files is created + modified + deleted, every listed file has
\* an operation among create, modify and delete, each normalized path is
\* listed at most once, and a path is listed exactly when its original and
\* new content differ or its operation is not unchanged.
C40_SummaryConsistent ==
  /\ get_summary(tracked_files).total_files =
       get_summary(tracked_files).created + get_summary(tracked_files).modified
         + get_summary(tracked_files).deleted
  /\ \A i \in 1..Len(get_summary(tracked_files).files) :
       get_summary(tracked_files).files[i].operation \in {"create", "modify", "delete"}
  /\ \A i, j \in 1..Len(get_summary(tracked_files).files) :
       get_summary(tracked_files).files[i].path = get_summary(tracked_files).files[j].path => i = j
  /\ \A key \in TrackerKeys :
       Listed(get_summary(tracked_files).files, key) <=>
         /\ Has(tracked_files, key)
         /\ \/ Get(tracked_files, key).original_content # Get(tracked_files, key).new_content
            \/ operation(Get(tracked_files, key)) # "unchanged"

\* C40 witness: a read as 'x' and written as 'y', b read as missing: two
\* tracked files, of which the summary lists one, a modify.
C40_Witness ==
  /\ Len(tracker_log) = 3
  /\ Len(tracked_files) = 2
  /\ Has(tracked_files, <<"a">>) /\ Has(tracked_files, <<"b">>)
  /\ Get(tracked_files, <<"a">>) = TrackedFile(<<"a">>, JStr(<<"x">>), JStr(<<"y">>), TRUE)
  /\ Get(tracked_files, <<"b">>) = TrackedFile(<<"b">>, JNull, JNull, FALSE)
  /\ get_summary(tracked_files) =
       [total_files |-> 1, created |-> 0, modified |-> 1, deleted |-> 0,
        files |-> <<[path |-> <<"a">>, operation |-> "modify"]>>]

\* The turns alternate user, assistant, user, assistant, ..., from a user
\* turn to an assistant turn.
Alternates(history) ==
  /\ Len(history) % 2 = 0
  /\ \A i \in 1..Len(history) :
       history[i].role = IF i % 2 = 1 THEN "user" ELSE "assistant"

\* C33: after completed process() calls the conversation history alternates
\* user, assistant, ..., starting with a user turn and ending with an
\* assistant turn, whether the turn ended with a final response, a provider
\* failure or the iteration cap.
C33_HistoryAlternates ==
  (pc = "idle" /\ outcome \in {"chat", "final", "failure", "cap"}) =>
    Alternates(conversation_history)

\* The part of C33 that holds of the code: after a turn that ended with a
\* reply of the LLM, in chat or in agent mode, the history ends with an
\* assistant turn, until it is cleared.
C33_RepliedTurnEndsWithAssistant ==
  (pc = "idle" /\ outcome \in {"chat", "final"} /\ conversation_history # <<>>) =>
    conversation_history[Len(conversation_history)].role = "assistant"

\* A turn whose first LLM call fails: the history is the user turn alone.
C33_FailureEndsWithUser ==
  /\ pc = "idle"
  /\ outcome = "failure"
  /\ llm_calls = 1
  /\ Len(conversation_history) = 1
  /\ conversation_history[1].role = "user"

\* A turn that ended at the iteration cap: the history ends with the user
\* turn that holds the last tool result.
C33_CapEndsWithUser ==
  /\ pc = "idle"
  /\ outcome = "cap"
  /\ Len(conversation_history) = 2 * max_iterations + 1
  /\ conversation_history[Len(conversation_history)].role = "user"

\* C37: for every result process() returns in agent mode, iterations is the
\* number of recorded tool calls plus one when the turn ended with a reply
\* free of tool calls, and the number of recorded tool calls when it ended
\* with a provider failure or at the iteration cap; there are at most 15
\* tool calls, and the LLM calls of the turn are one more than the tool
\* calls or, at the cap, 15.
C37_IterationsCountToolCalls ==
  (pc = "idle" /\ branch = "agent" /\ result.status = "returned") =>
    /\ outcome = "final" => result.iterations = Len(result.tool_calls) + 1
    /\ outcome \in {"failure", "cap"} => result.iterations = Len(result.tool_calls)
    /\ Len(result.tool_calls) <= 15
    /\ llm_calls = IF outcome = "cap" THEN 15 ELSE Len(result.tool_calls) + 1

\* C37 witness: a turn in agent mode that ended with a reply after one tool
\* call: two iterations, two LLM calls.
C37_Witness ==
  /\ pc = "idle"
  /\ branch = "agent"
  /\ outcome = "final"
  /\ result.status = "returned"
  /\ Len(result.tool_calls) = 1
  /\ result.iterations = 2
  /\ llm_calls = 2

\* A turn in agent mode that failed after one tool call: one iteration, one
\* recorded tool call, two LLM calls.
C37_FailureAfterToolCall ==
  /\ pc = "idle"
  /\ branch = "agent"
  /\ outcome = "failure"
  /\ Len(result.tool_calls) = 1
  /\ result.iterations = 1
  /\ llm_calls = 2

\* A turn that ended at the cap: 15 iterations, tool calls and LLM calls.
C37_AtCap ==
  /\ pc = "idle"
  /\ outcome = "cap"
  /\ Len(result.tool_calls) = 15
  /\ result.iterations = 15
  /\ llm_calls = 15

\* The system prompt of the LLM call request r has issued last is the one
\* of mode m.
PromptOf(r, m) ==
  (requests[r].llm_messages[1].content = <<Lit("chat_system_prompt")>>) <=> (m = "chat")

\* C36: within one process() turn the mode is fixed: the system prompt of
\* every LLM call of the turn and the mode reported in the returned result
\* are those of the mode the branch was chosen by when the turn started,
\* even if set_mode is invoked while an LLM call of the turn is in flight.
C36_ModeFixedInTurn ==
  \A r \in Requests :
    /\ requests[r].pc # "none" => PromptOf(r, requests[r].branch)
    /\ requests[r].pc = "returned" => requests[r].result.mode = requests[r].branch

\* The part of C36 that holds of the code: the branch of a turn and the
\* system prompt of its first LLM call are those of the mode in effect when
\* the turn starts.
C36_TurnStartsInMode ==
  [][ \A r \in Requests :
        (requests[r].pc = "none" /\ requests'[r].pc = "awaiting_llm") =>
          /\ requests'[r].branch = mode
          /\ (requests'[r].llm_messages[1].content = <<Lit("chat_system_prompt")>>)
               <=> (mode = "chat") ]_vars

\* A turn started in agent mode, chat mode set while its LLM call was in
\* flight: the result of the turn reports chat mode.
C36_ResultReportsLaterMode ==
  /\ requests[1].pc = "returned"
  /\ requests[1].branch = "agent"
  /\ requests[1].result.mode = "chat"
  /\ requests[2].pc = "none"

\* A turn started in agent mode, chat mode set while its first LLM call was
\* in flight: after the tool call the second LLM call is issued with the
\* system prompt of chat mode.
C36_LaterCallUnderOtherPrompt ==
  /\ requests[1].pc = "awaiting_llm"
  /\ requests[1].branch = "agent"
  /\ requests[1].iteration = 1
  /\ PromptOf(1, "chat")
  /\ requests[2].pc = "none"

\* The arguments of the call being dispatched, and what its handler is given.
DispatchArgs == GetOr(normalized_call.call, Key_args, JObj(<<>>)).f

DispatchEnv ==
  [disk |-> disk, tracked_files |-> tracked_files, tracker_enabled |-> tracker_enabled,
   workspace_dir |-> workspace_dir, args |-> DispatchArgs]

\* The tool result the dispatch has recorded.
Recorded == tool_results'[Len(tool_results')]

\* The dispatch did what the handler did: its text is the result, its disk
\* and its tracker are those after the dispatch, the arguments are as called.
HandledBy(handled) ==
  /\ Recorded.result = handled.text
  /\ Recorded.args = DispatchArgs
  /\ disk' = handled.disk
  /\ tracked_files' = handled.tracked_files

\* C38: the six built-in tool names are always executed by the handlers of
\* the orchestrator, whether or not the tools directory holds a script of
\* the same name; a script is invoked only for a name that is none of the
\* six.
C38_BuiltInsRunOwnHandlers ==
  [][ /\ Dispatches({Name_list_tools}) => HandledBy(Outcome(list_available_tools, FALSE, DispatchEnv))
      /\ Dispatches({Name_read_tool}) =>
           HandledBy(Outcome(read_tool_file(GetOr(DispatchArgs, Key_name, JStr(<<>>))), FALSE,
                             DispatchEnv))
      /\ Dispatches({Name_run_command}) =>
           HandledBy(tool_run_command(GetOr(DispatchArgs, Key_command, JStr(<<>>)), DispatchEnv))
      /\ Dispatches({Name_list_directory}) =>
           HandledBy(tool_list_directory(GetOr(DispatchArgs, Key_path, JStr(<<".">>)), DispatchEnv))
      /\ Dispatches({Name_read_file}) =>
           HandledBy(tool_read_file(GetOr(DispatchArgs, Key_path, JStr(<<>>)), DispatchEnv))
      /\ Dispatches({Name_write_file}) =>
           HandledBy(tool_write_file(GetOr(DispatchArgs, Key_path, JStr(<<>>)),
                                     GetOr(DispatchArgs, Key_content, JStr(<<>>)), DispatchEnv))
      /\ \A name \in BuiltInNames :
           (Dispatches({name}) /\ Has(local_tools, name)) =>
             Recorded.result # Get(local_tools, name).text ]_vars

\* C38 witness: read_file, a name the tools directory holds a script for,
\* has been dispatched on a.txt in the workspace /w, and the result is the
\* content of the file, not what the script returns.
C38_Witness ==
  /\ Has(local_tools, Name_read_file)
  /\ workspace_dir = Workspace(<<Name_w>>)
  /\ Len(tool_results) = 1
  /\ tool_results[1].tool = Name_read_file
  /\ tool_results[1].result[1] = Lit("Contents of '")
  /\ tool_results[1].result # Get(local_tools, Name_read_file).text
  /\ ~Has(tool_results[1].args, Key_workspace)

\* A script is invoked for a name that is none of the six: deploy gives
\* what its script does, which is to raise.
C38_ScriptInvoked ==
  /\ Len(tool_results) = 1
  /\ tool_results[1].tool = <<"d","e","p","l","o","y">>
  /\ Has(local_tools, tool_results[1].tool)
  /\ tool_results[1].result = <<Lit("Tool execution error: "), Exc("RuntimeError")>>

\* All but the last turn of a history.
Front(history) == SubSeq(history, 1, Len(history) - 1)

\* What generate_plan may not change: the mode, the workspace, the tracker
\* and the disk.
PlanFrame == <<mode, workspace_dir, tracked_files, tracker_enabled, disk>>

C39_PlanReplaced ==
  /\ pc = "idle"
  /\ plan_response = R_plan
  /\ current_plan = parse_plan(R_plan)
  /\ conversation_history = <<>>

====
